---- MODULE Spec2Model ----
(***************************************************************************)
(* Inventory ledger and variance reconciliation engine of the             *)
(* material-audit backend (backend/app).  One material, a small number of *)
(* warehouses and contractors; every request handler is an operation of   *)
(* the state machine, split at the points where the database lets another *)
(* transaction run (before a SELECT ... FOR UPDATE, before the commit).   *)
(*                                                                        *)
(* Decimal values are exact rationals <<n, d>> in lowest terms, d > 0.    *)
(* NUMERIC(15,6) columns round to six decimal places when written.        *)
(***************************************************************************)
EXTENDS Integers, Sequences, FiniteSets, TLC

\* ------------------------------------------------------------------ bounds
MaxQty == 2
InitStock == 2
MaxLedgerOps == 3
Ordered == 2
MaxDate == 3
MaxWorkflowOps == 4
MaxCount == 2
MaxAudits == 2

\* --------------------------------------------------------------- constants
NumScale == 1000000
PctScale == 10000
EpochFloor == 1

Slots == {1, 2}
Warehouses == {"W1", "W2"}
Units == {"kg", "bag"}
BaseUnit == "kg"
Contractors == {"c1", "c2"}
Dates == 1..MaxDate
Today == MaxDate
None == "none"
\* values that are not numbers: an absent row or quantity, and conversion errors
NoDec == <<0, 0>>
ErrNegative == <<-1, 0>>
ErrNoConv == <<-2, 0>>
NoRow == [qty |-> NoDec, unit |-> None]

\* ------------------------------------------------------ Decimal arithmetic
RECURSIVE Gcd(_, _)
Gcd(a, b) == IF b = 0 THEN a ELSE Gcd(b, a % b)

Abs(x) == IF x < 0 THEN -x ELSE x

Norm(n, d) ==
  LET g == Gcd(Abs(n), d) IN
  IF n = 0 THEN <<0, 1>> ELSE <<n \div g, d \div g>>

Dec(i) == <<i, 1>>
DMul(a, b) == Norm(a[1] * b[1], a[2] * b[2])
DAdd(a, b) == Norm(a[1] * b[2] + b[1] * a[2], a[2] * b[2])
DSub(a, b) == Norm(a[1] * b[2] - b[1] * a[2], a[2] * b[2])
DInv(a) == IF a[1] < 0 THEN Norm(-a[2], -a[1]) ELSE Norm(a[2], a[1])
DLt(a, b) == a[1] * b[2] < b[1] * a[2]
DLe(a, b) == a[1] * b[2] <= b[1] * a[2]

DAbs(a) == <<Abs(a[1]), a[2]>>

\* value written to a NUMERIC column of the given scale: rounded half away
\* from zero
RoundTo(a, scale) ==
  IF scale % a[2] = 0 THEN a
  ELSE LET m == Abs(a[1]) * scale
           r == (2 * m + a[2]) \div (2 * a[2])
       IN  Norm((IF a[1] < 0 THEN -r ELSE r), scale)

\* NUMERIC(15,6) and NUMERIC(8,4) columns
RoundNum(a) == RoundTo(a, NumScale)
RoundPct(a) == RoundTo(a, PctScale)

VARIABLES
  uconv,        \* unit_conversions: <<from, to>> -> factor of the active row, or NoDec
  whInv,        \* warehouse_inventory: warehouse -> [qty, unit], or NoRow
  ctrInv,       \* contractor_inventory.quantity of the contractor, or NoDec
  issuances,    \* material_issuances, in insertion order
  rej,          \* the material_rejections row
  xfer,         \* the stock_transfers row and its lines
  po,           \* the purchase order and its line
  whLock,       \* row lock of each warehouse_inventory row: holder slot or 0
  ctrLock,      \* row lock of the contractor_inventory row: holder slot or 0
  req,          \* the request each slot is serving
  last,         \* the response most recently returned
  nops,         \* requests started so far
  thr,          \* variance_thresholds: key -> [pct, active], or NoThr
  resolved,     \* the answer of the latest threshold lookup request
  cons,         \* consumption rows of the contractor, in insertion order
  checks,       \* inventory checks of the contractor, each with its line
  calc,         \* the result of the latest expected-inventory calculation
  audit,        \* the audits row
  line,         \* the audit_line_items row of the audit
  anomalies,    \* anomalies, in insertion order
  view,         \* the body of the latest response sent to the counting party
  otherAudits,  \* further audits rows of the contractor, each IN_PROGRESS
  adjustments,  \* the inventory_adjustments rows, in insertion order
  recon,        \* the reconciliations row
  rline         \* the reconciliation_lines row of the reconciliation

ledgerVars == <<uconv, whInv, ctrInv, issuances, rej, xfer, po, whLock, ctrLock, req, last, nops>>
thrVars == <<thr, resolved>>
calcVars == <<cons, checks, calc>>
auditVars == <<audit, line, anomalies, view, otherAudits>>
reconVars == <<recon, rline, adjustments>>
nonLedger == <<thrVars, calcVars, auditVars, reconVars>>
vars == <<ledgerVars, thrVars, calcVars, auditVars, reconVars>>

UnitPairs == {<<"bag", "kg">>, <<"kg", "bag">>}

\* ---------------------------------------------------- unit conversion service
\* get_conversion_factor: same unit, direct row, inverse of the reverse row
GetConversionFactor(from, to) ==
  IF from = to THEN Dec(1)
  ELSE IF uconv[<<from, to>>] # NoDec THEN uconv[<<from, to>>]
  ELSE IF uconv[<<to, from>>] # NoDec THEN DInv(uconv[<<to, from>>])
  ELSE NoDec

\* convert_quantity; ErrNegative and ErrNoConv stand for its two HTTP 400 errors
ConvertQuantity(qty, from, to) ==
  IF DLt(qty, Dec(0)) THEN ErrNegative
  ELSE IF from = to THEN qty
  ELSE IF GetConversionFactor(from, to) # NoDec
       THEN DMul(qty, GetConversionFactor(from, to))
  ELSE ErrNoConv

IsErr(x) == x[2] = 0

\* ------------------------------------------------------------ request slots
IdleReq == [op |-> "idle", pc |-> "idle", w |-> None, q |-> Dec(0), u |-> None,
            qbase |-> Dec(0), a |-> Dec(0), b |-> Dec(0)]
NoResp == [op |-> None, res |-> None]
NoRej == [status |-> None, q |-> Dec(0), u |-> None, w |-> None, date |-> 0]
NoThr == [pct |-> NoDec, active |-> FALSE]
NoResolved == [c |-> None, pct |-> NoDec, source |-> None]
NoCalc == [asOf |-> 0, expected |-> NoDec, opening |-> NoDec, issued |-> NoDec,
           consumed |-> NoDec, rejected |-> NoDec, start |-> 0]
NoAudit == [status |-> None, date |-> 0, analyzed_at |-> 0]
NoLine == [physical |-> NoDec, expected |-> NoDec, variance |-> NoDec, pct |-> NoDec,
           threshold |-> NoDec, is_anomaly |-> None, anomaly_id |-> 0]
NoView == [op |-> None, lines |-> <<>>]
NoRecon == [status |-> None, date |-> 0]
NoRLine == [reported |-> NoDec, system |-> NoDec, variance |-> NoDec, pct |-> NoDec,
            threshold |-> NoDec, is_anomaly |-> None, anomaly_id |-> 0]
\* the key of a variance_thresholds row: its contractor_id, or "null"
ThrKeys == Contractors \cup {"null"}

\* the tables and responses of the other components before their first request
InitThresholds == thr = [k \in ThrKeys |-> NoThr] /\ resolved = NoResolved
InitCalculator == cons = <<>> /\ checks = <<>> /\ calc = NoCalc
InitAudits ==
  audit = NoAudit /\ line = NoLine /\ anomalies = <<>> /\ view = NoView /\ otherAudits = 0
InitReconciliations == recon = NoRecon /\ rline = NoRLine /\ adjustments = <<>>
NoXfer == [status |-> None, src |-> None, dst |-> None, lines |-> <<>>]

InitStockLedger ==
  /\ uconv = [p \in UnitPairs |-> NoDec]
  /\ \E u \in Units : whInv = [w \in Warehouses |->
         IF w = "W1" THEN [qty |-> Dec(InitStock), unit |-> u] ELSE NoRow]
  /\ ctrInv = NoDec
  /\ issuances = <<>>
  /\ rej = NoRej
  /\ xfer = NoXfer
  /\ \E u \in Units, w \in Warehouses :
       po = [status |-> "APPROVED", w |-> w, unit |-> u, ordered |-> Dec(Ordered),
             received |-> Dec(0), lstatus |-> "PENDING"]
  /\ whLock = [w \in Warehouses |-> 0]
  /\ ctrLock = 0
  /\ req = [p \in Slots |-> IdleReq]
  /\ last = NoResp
  /\ nops = 0

InitLedger ==
  InitStockLedger /\ InitThresholds /\ InitCalculator /\ InitAudits /\ InitReconciliations

\* a response: the transaction is over, its locks are released
Respond(p, result) ==
  /\ req' = [req EXCEPT ![p] = IdleReq]
  /\ last' = [op |-> req[p].op, res |-> result]
  /\ whLock' = [w \in Warehouses |-> IF whLock[w] = p THEN 0 ELSE whLock[w]]
  /\ ctrLock' = IF ctrLock = p THEN 0 ELSE ctrLock

\* an error response raised before any row was touched
Reject(p, opname, result) ==
  /\ req' = [req EXCEPT ![p] = IdleReq]
  /\ last' = [op |-> opname, res |-> result]
  /\ UNCHANGED <<whLock, ctrLock>>

Start(p) ==
  /\ req[p].pc = "idle"
  /\ nops < MaxLedgerOps
  /\ nops' = nops + 1

StartWorkflowOp(p) ==
  /\ req[p].pc = "idle"
  /\ nops < MaxWorkflowOps
  /\ nops' = nops + 1

\* create_unit_conversion: a new active row for a pair that has none
CreateUnitConversion(from, to, f) ==
  /\ \A p \in Slots : req[p].pc = "idle"
  /\ uconv[<<from, to>>] = NoDec
  /\ uconv' = [uconv EXCEPT ![<<from, to>>] = f]
  /\ UNCHANGED <<whInv, ctrInv, issuances, rej, xfer, po, whLock, ctrLock, req, last, nops>>
  /\ UNCHANGED nonLedger

\* ------------------------------------------------------------------ Issue
\* create_issuance, steps 1-5: validation and conversion to the base unit
IssueBegin(p, w, q, u) ==
  /\ Start(p)
  /\ LET qb == IF u = BaseUnit THEN Dec(q)
               ELSE IF GetConversionFactor(u, BaseUnit) = NoDec THEN ErrNoConv
               ELSE ConvertQuantity(Dec(q), u, BaseUnit)
     IN  IF IsErr(qb)
         THEN Reject(p, "issue", "NoConversionDefined")
         ELSE /\ req' = [req EXCEPT ![p] = [IdleReq EXCEPT !.op = "issue",
                     !.pc = "lockW", !.w = w, !.q = Dec(q), !.u = u, !.qbase = qb]]
              /\ UNCHANGED <<last, whLock, ctrLock>>
  /\ UNCHANGED <<uconv, whInv, ctrInv, issuances, rej, xfer, po>>
  /\ UNCHANGED nonLedger

\* create_issuance, steps 6-7: lock the warehouse row, check stock, deduct
IssueLockWarehouse(p) ==
  /\ req[p].op = "issue" /\ req[p].pc = "lockW"
  /\ LET w == req[p].w
         row == whInv[w]
     IN
     IF row = NoRow
     THEN Respond(p, "NotInWarehouse")
     ELSE /\ whLock[w] = 0
          /\ LET inBase == IF row.unit = BaseUnit THEN row.qty
                           ELSE ConvertQuantity(row.qty, row.unit, BaseUnit)
                 deduct == IF row.unit = BaseUnit THEN req[p].qbase
                           ELSE ConvertQuantity(req[p].qbase, BaseUnit, row.unit)
             IN
             IF IsErr(inBase) THEN Respond(p, "NoConversionDefined")
             ELSE IF DLt(inBase, req[p].qbase) THEN Respond(p, "InsufficientStock")
             ELSE IF IsErr(deduct) THEN Respond(p, "NoConversionDefined")
             ELSE /\ req' = [req EXCEPT ![p].pc = "lockC",
                                        ![p].a = deduct,
                                        ![p].b = DSub(row.qty, deduct)]
                  /\ whLock' = [whLock EXCEPT ![w] = p]
                  /\ UNCHANGED <<last, ctrLock>>
  /\ UNCHANGED <<uconv, whInv, ctrInv, issuances, rej, xfer, po, nops>>
  /\ UNCHANGED nonLedger

\* create_issuance, steps 8-11: lock the contractor row, add, log, commit
IssueCommit(p) ==
  /\ req[p].op = "issue" /\ req[p].pc = "lockC"
  /\ ctrLock = 0
  /\ whInv' = [whInv EXCEPT ![req[p].w].qty = RoundNum(req[p].b)]
  /\ ctrInv' = IF ctrInv = NoDec THEN req[p].qbase ELSE DAdd(ctrInv, req[p].qbase)
  /\ issuances' = Append(issuances, [q |-> req[p].q, u |-> req[p].u,
                                     qbase |-> RoundNum(req[p].qbase), date |-> Today])
  /\ Respond(p, "ok")
  /\ UNCHANGED <<uconv, rej, xfer, po, nops>>
  /\ UNCHANGED nonLedger

\* --------------------------------------------------------------- Transfer
\* create_stock_transfer: both warehouses differ, every line is in stock
CreateTransfer(src, dst, lines) ==
  /\ \A p \in Slots : req[p].pc = "idle"
  /\ nops < MaxLedgerOps
  /\ nops' = nops + 1
  /\ xfer = NoXfer
  /\ src # dst
  /\ IF \E i \in 1..Len(lines) :
          whInv[src] = NoRow \/ DLt(whInv[src].qty, Dec(lines[i]))
     THEN /\ last' = [op |-> "createTransfer", res |-> "InsufficientStock"]
          /\ UNCHANGED xfer
     ELSE /\ xfer' = [status |-> "draft", src |-> src, dst |-> dst, lines |-> lines]
          /\ last' = [op |-> "createTransfer", res |-> "ok"]
  /\ UNCHANGED <<uconv, whInv, ctrInv, issuances, rej, po, whLock, ctrLock, req>>
  /\ UNCHANGED nonLedger

\* submit_stock_transfer
SubmitTransfer ==
  /\ \A p \in Slots : req[p].pc = "idle"
  /\ xfer.status = "draft"
  /\ xfer' = [xfer EXCEPT !.status = "submitted"]
  /\ last' = [op |-> "submitTransfer", res |-> "ok"]
  /\ UNCHANGED <<uconv, whInv, ctrInv, issuances, rej, po, whLock, ctrLock, req, nops>>
  /\ UNCHANGED nonLedger

\* the loop of complete_stock_transfer over the lines from line i on, with
\* s and d the source and destination rows as this transaction sees them
RECURSIVE ProcessLines(_, _, _, _)
ProcessLines(lines, i, s, d) ==
  IF i > Len(lines) THEN [ok |-> TRUE, s |-> s, d |-> d]
  ELSE IF s = NoRow \/ DLt(s.qty, Dec(lines[i])) THEN [ok |-> FALSE, s |-> s, d |-> d]
  ELSE ProcessLines(lines, i + 1,
         [s EXCEPT !.qty = DSub(s.qty, Dec(lines[i]))],
         IF d = NoRow THEN [qty |-> Dec(lines[i]), unit |-> s.unit]
         ELSE [d EXCEPT !.qty = DAdd(d.qty, Dec(lines[i]))])

\* complete_stock_transfer: the status check
CompleteBegin(p) ==
  /\ Start(p)
  /\ xfer.status # None
  /\ IF xfer.status \notin {"draft", "submitted"}
     THEN Reject(p, "complete", "InvalidState")
     ELSE /\ req' = [req EXCEPT ![p] = [IdleReq EXCEPT !.op = "complete", !.pc = "lockS"]]
          /\ UNCHANGED <<last, whLock, ctrLock>>
  /\ UNCHANGED <<uconv, whInv, ctrInv, issuances, rej, xfer, po>>
  /\ UNCHANGED nonLedger

\* complete_stock_transfer: lock the source row of the first line and check it
CompleteLockSource(p) ==
  /\ req[p].op = "complete" /\ req[p].pc = "lockS"
  /\ LET s == whInv[xfer.src] IN
     IF s = NoRow THEN Respond(p, "InsufficientStock")
     ELSE /\ whLock[xfer.src] \in {0, p}
          /\ IF DLt(s.qty, Dec(xfer.lines[1]))
             THEN Respond(p, "InsufficientStock")
             ELSE /\ whLock' = [whLock EXCEPT ![xfer.src] = p]
                  /\ req' = [req EXCEPT ![p].pc = "lockD"]
                  /\ UNCHANGED <<last, ctrLock>>
  /\ UNCHANGED <<uconv, whInv, ctrInv, issuances, rej, xfer, po, nops>>
  /\ UNCHANGED nonLedger

\* a completion whose failure keeps the lines already moved
CompleteCommit_KeepsStaged(p) ==
  /\ req[p].op = "complete" /\ req[p].pc = "lockD"
  /\ whInv[xfer.dst] # NoRow => whLock[xfer.dst] = 0
  /\ LET r == ProcessLines(xfer.lines, 1, whInv[xfer.src], whInv[xfer.dst]) IN
     /\ whInv' = [whInv EXCEPT ![xfer.src] = r.s, ![xfer.dst] = r.d]
     /\ IF r.ok
        THEN /\ xfer' = [xfer EXCEPT !.status = "completed"]
             /\ Respond(p, "ok")
        ELSE /\ UNCHANGED xfer
             /\ Respond(p, "InsufficientStock")
  /\ UNCHANGED <<uconv, ctrInv, issuances, rej, po, nops>>
  /\ UNCHANGED nonLedger

\* complete_stock_transfer: lock the destination row, move every line, commit
CompleteCommit(p) ==
  /\ req[p].op = "complete" /\ req[p].pc = "lockD"
  /\ whInv[xfer.dst] # NoRow => whLock[xfer.dst] = 0
  /\ LET r == ProcessLines(xfer.lines, 1, whInv[xfer.src], whInv[xfer.dst]) IN
     IF r.ok
     THEN /\ whInv' = [whInv EXCEPT ![xfer.src] = [r.s EXCEPT !.qty = RoundNum(r.s.qty)],
                                    ![xfer.dst] = [r.d EXCEPT !.qty = RoundNum(r.d.qty)]]
          /\ xfer' = [xfer EXCEPT !.status = "completed"]
          /\ Respond(p, "ok")
     ELSE /\ UNCHANGED <<whInv, xfer>>
          /\ Respond(p, "InsufficientStock")
  /\ UNCHANGED <<uconv, ctrInv, issuances, rej, po, nops>>
  /\ UNCHANGED nonLedger

\* cancel_stock_transfer: the status check
CancelBegin(p) ==
  /\ Start(p)
  /\ xfer.status # None
  /\ IF xfer.status \in {"completed", "cancelled"}
     THEN Reject(p, "cancel", "InvalidState")
     ELSE /\ req' = [req EXCEPT ![p] = [IdleReq EXCEPT !.op = "cancel", !.pc = "write"]]
          /\ UNCHANGED <<last, whLock, ctrLock>>
  /\ UNCHANGED <<uconv, whInv, ctrInv, issuances, rej, xfer, po>>
  /\ UNCHANGED nonLedger

\* cancel_stock_transfer: the status write and commit
CancelCommit(p) ==
  /\ req[p].op = "cancel" /\ req[p].pc = "write"
  /\ xfer' = [xfer EXCEPT !.status = "cancelled"]
  /\ Respond(p, "ok")
  /\ UNCHANGED <<uconv, whInv, ctrInv, issuances, rej, po, nops>>
  /\ UNCHANGED nonLedger

\* ----------------------------------------------------- Reject-and-receive
\* report_rejection
ReportRejection(q, u) ==
  /\ \A p \in Slots : req[p].pc = "idle"
  /\ nops < MaxLedgerOps
  /\ nops' = nops + 1
  /\ rej = NoRej
  /\ LET qb == IF u = BaseUnit THEN Dec(q)
               ELSE IF GetConversionFactor(u, BaseUnit) = NoDec THEN ErrNoConv
               ELSE ConvertQuantity(Dec(q), u, BaseUnit)
     IN
     IF ctrInv = NoDec \/ DLe(ctrInv, Dec(0))
     THEN /\ last' = [op |-> "report", res |-> "NotInInventory"] /\ UNCHANGED rej
     ELSE IF IsErr(qb)
     THEN /\ last' = [op |-> "report", res |-> "NoConversionDefined"] /\ UNCHANGED rej
     ELSE IF DLt(ctrInv, qb)
     THEN /\ last' = [op |-> "report", res |-> "ExceedsInventory"] /\ UNCHANGED rej
     ELSE /\ rej' = [status |-> "REPORTED", q |-> Dec(q), u |-> u, w |-> None, date |-> Today]
          /\ last' = [op |-> "report", res |-> "ok"]
  /\ UNCHANGED <<uconv, whInv, ctrInv, issuances, xfer, po, whLock, ctrLock, req>>
  /\ UNCHANGED nonLedger

\* an approval that already credits the return warehouse
ApproveRejection_MovesStock(w) ==
  /\ \A p \in Slots : req[p].pc = "idle"
  /\ rej.status = "REPORTED"
  /\ rej' = [rej EXCEPT !.status = "APPROVED", !.w = w]
  /\ whInv' = [whInv EXCEPT ![w] =
        IF whInv[w] = NoRow THEN [qty |-> rej.q, unit |-> rej.u]
        ELSE [whInv[w] EXCEPT !.qty = DAdd(whInv[w].qty, rej.q)]]
  /\ last' = [op |-> "approve", res |-> "ok"]
  /\ UNCHANGED <<uconv, ctrInv, issuances, xfer, po, whLock, ctrLock, req, nops>>
  /\ UNCHANGED nonLedger

\* approve_rejection
ApproveRejection(w) ==
  /\ \A p \in Slots : req[p].pc = "idle"
  /\ rej.status = "REPORTED"
  /\ rej' = [rej EXCEPT !.status = "APPROVED", !.w = w]
  /\ last' = [op |-> "approve", res |-> "ok"]
  /\ UNCHANGED <<uconv, whInv, ctrInv, issuances, xfer, po, whLock, ctrLock, req, nops>>
  /\ UNCHANGED nonLedger

\* dispute_rejection
DisputeRejection ==
  /\ \A p \in Slots : req[p].pc = "idle"
  /\ rej.status = "REPORTED"
  /\ rej' = [rej EXCEPT !.status = "DISPUTED"]
  /\ last' = [op |-> "dispute", res |-> "ok"]
  /\ UNCHANGED <<uconv, whInv, ctrInv, issuances, xfer, po, whLock, ctrLock, req, nops>>
  /\ UNCHANGED nonLedger

\* receive_rejection: the status check and the conversion to the base unit
ReceiveBegin(p) ==
  /\ Start(p)
  /\ rej.status # None
  /\ LET qb == IF rej.u = BaseUnit THEN rej.q
               ELSE ConvertQuantity(rej.q, rej.u, BaseUnit)
     IN
     IF rej.status # "APPROVED" THEN Reject(p, "receive", "InvalidState")
     ELSE IF IsErr(qb) THEN Reject(p, "receive", "NoConversionDefined")
     ELSE /\ req' = [req EXCEPT ![p] = [IdleReq EXCEPT !.op = "receive",
                       !.pc = "lockC", !.w = rej.w, !.qbase = qb]]
          /\ UNCHANGED <<last, whLock, ctrLock>>
  /\ UNCHANGED <<uconv, whInv, ctrInv, issuances, rej, xfer, po>>
  /\ UNCHANGED nonLedger

\* receive_rejection: lock the contractor row, check it, deduct
ReceiveLockContractor(p) ==
  /\ req[p].op = "receive" /\ req[p].pc = "lockC"
  /\ IF ctrInv = NoDec THEN Respond(p, "NotInInventory")
     ELSE /\ ctrLock = 0
          /\ IF DLt(ctrInv, req[p].qbase)
             THEN Respond(p, "InsufficientStock")
             ELSE /\ ctrLock' = p
                  /\ req' = [req EXCEPT ![p].pc = "lockW",
                                        ![p].b = DSub(ctrInv, req[p].qbase)]
                  /\ UNCHANGED <<last, whLock>>
  /\ UNCHANGED <<uconv, whInv, ctrInv, issuances, rej, xfer, po, nops>>
  /\ UNCHANGED nonLedger

\* a receipt that adds the base-unit quantity as it is when no conversion to
\* the unit of the warehouse row is defined
ReceiveCommit_AssumesOneToOne(p) ==
  /\ req[p].op = "receive" /\ req[p].pc = "lockW"
  /\ LET w == req[p].w
         row == whInv[w]
         conv == IF row = NoRow \/ row.unit = BaseUnit THEN req[p].qbase
                 ELSE ConvertQuantity(req[p].qbase, BaseUnit, row.unit)
         add == IF IsErr(conv) THEN req[p].qbase ELSE conv
     IN
     /\ row # NoRow => whLock[w] = 0
     /\ whInv' = [whInv EXCEPT ![w] =
             IF row = NoRow THEN [qty |-> RoundNum(req[p].qbase), unit |-> BaseUnit]
             ELSE [row EXCEPT !.qty = RoundNum(DAdd(row.qty, add))]]
     /\ ctrInv' = req[p].b
     /\ rej' = [rej EXCEPT !.status = "RECEIVED_AT_WAREHOUSE"]
     /\ Respond(p, "ok")
  /\ UNCHANGED <<uconv, issuances, xfer, po, nops>>
  /\ UNCHANGED nonLedger

\* receive_rejection: lock the warehouse row, add, mark received, commit
ReceiveCommit(p) ==
  /\ req[p].op = "receive" /\ req[p].pc = "lockW"
  /\ LET w == req[p].w
         row == whInv[w]
         add == IF row = NoRow \/ row.unit = BaseUnit THEN req[p].qbase
                ELSE ConvertQuantity(req[p].qbase, BaseUnit, row.unit)
     IN
     /\ row # NoRow => whLock[w] = 0
     /\ IF IsErr(add)
        THEN /\ UNCHANGED <<whInv, ctrInv, rej>>
             /\ Respond(p, "NoConversionDefined")
        ELSE /\ whInv' = [whInv EXCEPT ![w] =
                  IF row = NoRow THEN [qty |-> RoundNum(req[p].qbase), unit |-> BaseUnit]
                  ELSE [row EXCEPT !.qty = RoundNum(DAdd(row.qty, add))]]
             /\ ctrInv' = req[p].b
             /\ rej' = [rej EXCEPT !.status = "RECEIVED_AT_WAREHOUSE"]
             /\ Respond(p, "ok")
  /\ UNCHANGED <<uconv, issuances, xfer, po, nops>>
  /\ UNCHANGED nonLedger

\* ------------------------------------------------- Receive-against-order
\* create_goods_receipt up to the staged updates: the order and its line are
\* checked and the warehouse row is read without a lock
GoodsReceiptBegin(p, q) ==
  /\ Start(p)
  /\ LET row == whInv[po.w]
         storage == IF row = NoRow THEN po.unit ELSE row.unit
         conv == IF po.unit # storage THEN ConvertQuantity(Dec(q), po.unit, storage)
                 ELSE Dec(q)
         cur == IF row = NoRow THEN Dec(0) ELSE row.qty
     IN
     IF po.status \notin {"APPROVED", "PARTIALLY_RECEIVED"}
     THEN Reject(p, "grn", "InvalidState")
     ELSE IF DLt(DSub(po.ordered, po.received), Dec(q))
     THEN Reject(p, "grn", "ExceedsRemaining")
     ELSE IF IsErr(conv) THEN Reject(p, "grn", "NoConversionDefined")
     ELSE /\ req' = [req EXCEPT ![p] = [IdleReq EXCEPT !.op = "grn", !.pc = "write",
                       !.w = po.w, !.q = Dec(q), !.u = storage,
                       !.qbase = (IF row = NoRow THEN NoDec ELSE row.qty),
                       !.a = DAdd(po.received, Dec(q)),
                       !.b = DAdd(cur, conv)]]
          /\ UNCHANGED <<last, whLock, ctrLock>>
  /\ UNCHANGED <<uconv, whInv, ctrInv, issuances, rej, xfer, po>>
  /\ UNCHANGED nonLedger

\* create_goods_receipt: the staged row, line and order updates are written
\* and committed
GoodsReceiptCommit(p) ==
  /\ req[p].op = "grn" /\ req[p].pc = "write"
  /\ whLock[req[p].w] = 0
  /\ IF req[p].qbase = NoDec /\ whInv[req[p].w] # NoRow
     THEN /\ UNCHANGED <<whInv, po>>
          /\ Respond(p, "IntegrityError")
     ELSE /\ whInv' = [whInv EXCEPT ![req[p].w] =
                          [qty |-> RoundNum(req[p].b), unit |-> req[p].u]]
          /\ po' = [po EXCEPT
                 !.received = req[p].a,
                 !.lstatus = IF DLe(po.ordered, req[p].a) THEN "RECEIVED"
                             ELSE "PARTIALLY_RECEIVED",
                 !.status = IF DLe(po.ordered, req[p].a) THEN "RECEIVED"
                            ELSE "PARTIALLY_RECEIVED"]
          /\ Respond(p, "ok")
  /\ UNCHANGED <<uconv, ctrInv, issuances, rej, xfer, nops>>
  /\ UNCHANGED nonLedger

\* ------------------------------------------------------------ thresholds
SYSTEM_DEFAULT_THRESHOLD == <<2, 1>>
ledgerData == <<uconv, whInv, ctrInv, issuances, rej, xfer, po, whLock, ctrLock, req, nops>>

\* ThresholdCreate / ThresholdUpdate: threshold_percentage gt=0, le=100
ValidPercentage(pct) == DLt(Dec(0), pct) /\ DLe(pct, Dec(100))

\* a lookup that forgets the is_active filter on both rows
GetThresholdWithSource_AnyRow(c) ==
  IF thr[c] # NoThr
  THEN [pct |-> thr[c].pct, source |-> "contractor"]
  ELSE IF thr["null"] # NoThr
  THEN [pct |-> thr["null"].pct, source |-> "material"]
  ELSE [pct |-> SYSTEM_DEFAULT_THRESHOLD, source |-> "system"]

\* get_threshold_with_source: contractor row, material default, system default
GetThresholdWithSource(c) ==
  IF thr[c] # NoThr /\ thr[c].active
  THEN [pct |-> thr[c].pct, source |-> "contractor"]
  ELSE IF thr["null"] # NoThr /\ thr["null"].active
  THEN [pct |-> thr["null"].pct, source |-> "material"]
  ELSE [pct |-> SYSTEM_DEFAULT_THRESHOLD, source |-> "system"]

\* create_threshold: a new row, or the inactive row of the pair made active again
CreateThreshold(k, pct) ==
  /\ IF ~ValidPercentage(pct)
     THEN /\ last' = [op |-> "createThreshold", res |-> "ValidationError"]
          /\ UNCHANGED thr
     ELSE IF thr[k] # NoThr /\ thr[k].active
     THEN /\ last' = [op |-> "createThreshold", res |-> "AlreadyExists"]
          /\ UNCHANGED thr
     ELSE /\ thr' = [thr EXCEPT ![k] = [pct |-> RoundPct(pct), active |-> TRUE]]
          /\ last' = [op |-> "createThreshold", res |-> "ok"]
  /\ UNCHANGED <<ledgerData, resolved, calcVars, auditVars, reconVars>>

\* update_threshold: pct = NoDec and act = None stand for fields left out
UpdateThreshold(k, pct, act) ==
  /\ IF pct # NoDec /\ ~ValidPercentage(pct)
     THEN /\ last' = [op |-> "updateThreshold", res |-> "ValidationError"]
          /\ UNCHANGED thr
     ELSE IF thr[k] = NoThr
     THEN /\ last' = [op |-> "updateThreshold", res |-> "NotFound"]
          /\ UNCHANGED thr
     ELSE /\ thr' = [thr EXCEPT ![k] =
                      [pct |-> IF pct # NoDec THEN RoundPct(pct) ELSE thr[k].pct,
                       active |-> IF act # None THEN act = "true" ELSE thr[k].active]]
          /\ last' = [op |-> "updateThreshold", res |-> "ok"]
  /\ UNCHANGED <<ledgerData, resolved, calcVars, auditVars, reconVars>>

\* delete_threshold: soft delete
DeleteThreshold(k) ==
  /\ IF thr[k] = NoThr
     THEN /\ last' = [op |-> "deleteThreshold", res |-> "NotFound"]
          /\ UNCHANGED thr
     ELSE /\ thr' = [thr EXCEPT ![k].active = FALSE]
          /\ last' = [op |-> "deleteThreshold", res |-> "ok"]
  /\ UNCHANGED <<ledgerData, resolved, calcVars, auditVars, reconVars>>

\* get_threshold: the lookup endpoint
GetThreshold(c) ==
  /\ resolved' = [c |-> c, pct |-> GetThresholdWithSource(c).pct,
                  source |-> GetThresholdWithSource(c).source]
  /\ last' = [op |-> "getThreshold", res |-> "ok"]
  /\ UNCHANGED <<ledgerData, thr, calcVars, auditVars, reconVars>>

\* ------------------------------------------------- inventory calculator
RECURSIVE SumInPeriod(_, _, _)
\* SUM(...) over the rows of a table dated within [start, end]; Amount(r) is
\* the column that is summed
SumInPeriod(rows, start, end) ==
  IF rows = <<>> THEN Dec(0)
  ELSE LET r == Head(rows)
           rest == SumInPeriod(Tail(rows), start, end)
       IN  IF start <= r.date /\ r.date <= end THEN DAdd(r.amount, rest) ELSE rest

\* _get_opening_balance: the candidates for .order_by(check_date.desc()).first()
LastCheckLines(asOf) ==
  LET before == {i \in 1..Len(checks) :
                   checks[i].status = "resolved" /\ checks[i].date < asOf}
  IN  {i \in before : \A j \in before : checks[j].date <= checks[i].date}

\* _get_opening_balance when the query returns line i (0: no line)
GetOpeningBalance(i) ==
  IF i # 0 /\ checks[i].actual # NoDec
  THEN [opening |-> checks[i].actual, start |-> checks[i].date + 1]
  ELSE [opening |-> Dec(0), start |-> EpochFloor]

\* the dated amounts a sum ranges over: the column each query sums
IssuanceAmounts ==
  [k \in 1..Len(issuances) |-> [date |-> issuances[k].date, amount |-> issuances[k].qbase]]
ConsumptionAmounts ==
  [k \in 1..Len(cons) |-> [date |-> cons[k].date, amount |-> cons[k].q]]
RejectionAmounts ==
  IF rej.status = "RECEIVED_AT_WAREHOUSE"
  THEN <<[date |-> rej.date, amount |-> rej.q]>> ELSE <<>>

\* _get_total_issued
GetTotalIssued(start, end) == SumInPeriod(IssuanceAmounts, start, end)

\* _get_total_consumed
GetTotalConsumed(start, end) == SumInPeriod(ConsumptionAmounts, start, end)

\* _get_total_rejected: rejections received at the warehouse
GetTotalRejected(start, end) == SumInPeriod(RejectionAmounts, start, end)

\* calculate_expected_inventory_detailed, the query for the last check having
\* returned line i
CalculateExpectedInventoryDetailed(asOf, i) ==
  LET ob == GetOpeningBalance(i)
      issued == GetTotalIssued(ob.start, asOf)
      consumed == GetTotalConsumed(ob.start, asOf)
      rejected == GetTotalRejected(ob.start, asOf)
  IN  [asOf |-> asOf,
       expected |-> DSub(DSub(DAdd(ob.opening, issued), consumed), rejected),
       opening |-> ob.opening, issued |-> issued, consumed |-> consumed,
       rejected |-> rejected, start |-> ob.start]

\* the indexes the last-check query may return
LastCheckChoices(asOf) ==
  IF LastCheckLines(asOf) = {} THEN {0} ELSE LastCheckLines(asOf)

\* a request for the expected inventory as of a date
CalculateExpected(asOf) ==
  /\ \E i \in LastCheckChoices(asOf) : calc' = CalculateExpectedInventoryDetailed(asOf, i)
  /\ last' = [op |-> "expected", res |-> "ok"]
  /\ UNCHANGED <<ledgerData, cons, checks, thrVars, auditVars, reconVars>>

\* report_production up to the staged writes: the balance row of the
\* contractor is read without a lock
ReportProductionBegin(p, q) ==
  /\ Start(p)
  /\ req' = [req EXCEPT ![p] = [IdleReq EXCEPT !.op = "production", !.pc = "write",
                                               !.q = Dec(q), !.a = ctrInv]]
  /\ UNCHANGED <<uconv, whInv, ctrInv, issuances, rej, xfer, po, whLock, ctrLock, last>>
  /\ UNCHANGED nonLedger

\* report_production: an Anomaly when the balance read is short of the
\* required quantity by more than 2%, the consumption row, the balance read
\* less the required quantity (a new negative row when there was none), commit
ReportProductionCommit(p) ==
  /\ req[p].op = "production" /\ req[p].pc = "write"
  /\ ctrLock = 0
  /\ LET required == req[p].q
         available == IF req[p].a = NoDec THEN Dec(0) ELSE req[p].a
         shortage == DSub(required, available)
         pct == DMul(DMul(shortage, DInv(required)), Dec(100))
     IN  /\ anomalies' = IF DLt(Dec(0), shortage) /\ DLt(Dec(2), pct)
                         THEN Append(anomalies,
                                [expected |-> required, actual |-> available,
                                 variance |-> shortage, pct |-> pct,
                                 type |-> "shortage", resolved |-> FALSE])
                         ELSE anomalies
         /\ ctrInv' = DSub(available, required)
         /\ cons' = Append(cons, [q |-> required, date |-> Today])
  /\ Respond(p, "ok")
  /\ UNCHANGED <<uconv, whInv, issuances, rej, xfer, po, nops>>
  /\ UNCHANGED <<thrVars, checks, calc, audit, line, view, otherAudits, reconVars>>

\* ------------------------------------------------------------ blind audit
\* the contractor under audit
Audited == "c1"
outsideAudit == <<uconv, whInv, issuances, rej, xfer, po, whLock, ctrLock,
                  thrVars, calcVars, reconVars>>
auditOther == <<outsideAudit, otherAudits>>

\* a response of a handler that holds no row lock
Answer(p, result) ==
  /\ req' = [req EXCEPT ![p] = IdleReq]
  /\ last' = [op |-> req[p].op, res |-> result]

\* AuditMaterialForAuditor: what the counting party is shown of a line
AuditMaterialForAuditor(l) ==
  [id |-> 1, material_id |-> "m1", material_name |-> "m1", material_code |-> "m1",
   unit_of_measure |-> BaseUnit]

\* the audits of the contractor that are IN_PROGRESS
InProgressAudits == (IF audit.status = "IN_PROGRESS" THEN 1 ELSE 0) + otherAudits

\* the audits of the contractor
StartedAudits == (IF audit.status = None THEN 0 ELSE 1) + otherAudits

\* start_audit: the query for an IN_PROGRESS audit of the contractor
StartAuditBegin(p) ==
  /\ req[p].pc = "idle"
  /\ StartedAudits < MaxAudits
  /\ IF InProgressAudits > 0
     THEN /\ last' = [op |-> "start", res |-> "AlreadyInProgress"]
          /\ UNCHANGED req
     ELSE /\ req' = [req EXCEPT ![p] = [IdleReq EXCEPT !.op = "start", !.pc = "write"]]
          /\ UNCHANGED last
  /\ UNCHANGED <<audit, line, anomalies, view, ctrInv, nops, auditOther>>

\* get_db: each request runs in a session of its own, closed when the handler
\* returns or raises; what the handler staged becomes the stored state if it
\* committed and is discarded otherwise
SessionOutcome(committed, stored, staged) == IF committed THEN staged ELSE stored

\* the rows start_audit has staged when it looks for materials to count
StagedAudit ==
  IF audit.status = None
  THEN [audit |-> [status |-> "IN_PROGRESS", date |-> Today, analyzed_at |-> 0],
        line |-> NoLine, otherAudits |-> otherAudits]
  ELSE [audit |-> audit, line |-> line, otherAudits |-> otherAudits + 1]

\* a start that commits the audit before it looks for materials to count
StartAuditCommit_CommitsFirst(p) ==
  /\ req[p].op = "start" /\ req[p].pc = "write"
  /\ LET counted == ~(ctrInv = NoDec \/ DLe(ctrInv, Dec(0)))
     IN  /\ audit' = StagedAudit.audit
         /\ line' = StagedAudit.line
         /\ otherAudits' = StagedAudit.otherAudits
         /\ view' = IF counted
                    THEN [op |-> "start", lines |-> <<AuditMaterialForAuditor(NoLine)>>]
                    ELSE view
         /\ Answer(p, IF counted THEN "ok" ELSE "NoMaterials")
  /\ UNCHANGED <<anomalies, ctrInv, nops, outsideAudit>>

\* start_audit: the audit is inserted and flushed; without a material of
\* positive balance the handler raises, otherwise the lines are inserted and
\* the session committed
StartAuditCommit(p) ==
  /\ req[p].op = "start" /\ req[p].pc = "write"
  /\ LET counted == ~(ctrInv = NoDec \/ DLe(ctrInv, Dec(0)))
         stored == [audit |-> audit, line |-> line, otherAudits |-> otherAudits]
         after == SessionOutcome(counted, stored, StagedAudit)
     IN  /\ audit' = after.audit
         /\ line' = after.line
         /\ otherAudits' = after.otherAudits
         /\ view' = IF counted
                    THEN [op |-> "start", lines |-> <<AuditMaterialForAuditor(NoLine)>>]
                    ELSE view
         /\ Answer(p, IF counted THEN "ok" ELSE "NoMaterials")
  /\ UNCHANGED <<anomalies, ctrInv, nops, outsideAudit>>

\* get_audit_for_auditor
GetAuditForAuditor ==
  /\ audit.status # None
  /\ IF audit.status # "IN_PROGRESS"
     THEN /\ last' = [op |-> "auditorView", res |-> "InvalidState"]
          /\ UNCHANGED view
     ELSE /\ view' = [op |-> "auditorView", lines |-> <<AuditMaterialForAuditor(line)>>]
          /\ last' = [op |-> "auditorView", res |-> "ok"]
  /\ UNCHANGED <<audit, line, anomalies, ctrInv, req, nops, auditOther>>

\* a handler that proceeds whatever the status of the audit is
AuditBegin_NoStatusCheck(p, opname, required, count) ==
  /\ StartWorkflowOp(p)
  /\ audit.status # None
  /\ req' = [req EXCEPT ![p] = [IdleReq EXCEPT !.op = opname, !.pc = "write", !.q = count]]
  /\ UNCHANGED <<last, audit, line, anomalies, view, ctrInv, auditOther>>

\* the status check that opens enter_counts, submit_audit, analyze_audit,
\* accept_counts and close_audit
AuditBegin(p, opname, required, count) ==
  /\ StartWorkflowOp(p)
  /\ audit.status # None
  /\ IF audit.status # required
     THEN /\ req' = [req EXCEPT ![p] = IdleReq]
          /\ last' = [op |-> opname, res |-> "InvalidState"]
     ELSE /\ req' = [req EXCEPT ![p] = [IdleReq EXCEPT !.op = opname, !.pc = "write",
                                                      !.q = count]]
          /\ UNCHANGED last
  /\ UNCHANGED <<audit, line, anomalies, view, ctrInv, auditOther>>

\* the counts a request may carry for the line: none, or a number >= 0
CountEntries == {NoDec} \cup {Dec(c) : c \in 0..MaxCount}

\* the line after the counts of a request are applied
ApplyCounts(l, entry) == IF entry = NoDec THEN l ELSE [l EXCEPT !.physical = RoundNum(entry)]

EnterCountsBegin(p, count) == AuditBegin(p, "enterCounts", "IN_PROGRESS", count)
SubmitBegin(p, count) == AuditBegin(p, "submit", "IN_PROGRESS", count)
\* analyze_audit: the status check; outcome tells whether
\* calculate_expected_inventory will return or raise for this request
CalcOutcomes == {"returns", "raises"}
AnalyzeBegin(p, outcome) ==
  /\ StartWorkflowOp(p)
  /\ audit.status # None
  /\ IF audit.status # "SUBMITTED"
     THEN /\ req' = [req EXCEPT ![p] = IdleReq]
          /\ last' = [op |-> "analyze", res |-> "InvalidState"]
     ELSE /\ req' = [req EXCEPT ![p] = [IdleReq EXCEPT !.op = "analyze", !.pc = "write",
                                                      !.u = outcome]]
          /\ UNCHANGED last
  /\ UNCHANGED <<audit, line, anomalies, view, ctrInv, auditOther>>
\* accept_counts: the status check and the unlocked read of the balance row
AcceptCountsBegin(p) ==
  /\ StartWorkflowOp(p)
  /\ audit.status # None
  /\ IF audit.status # "ANALYZED"
     THEN /\ req' = [req EXCEPT ![p] = IdleReq]
          /\ last' = [op |-> "acceptCounts", res |-> "InvalidState"]
     ELSE /\ req' = [req EXCEPT ![p] = [IdleReq EXCEPT !.op = "acceptCounts",
                                                      !.pc = "write", !.a = ctrInv]]
          /\ UNCHANGED last
  /\ UNCHANGED <<audit, line, anomalies, view, ctrInv, auditOther>>
CloseBegin(p) == AuditBegin(p, "close", "ANALYZED", Dec(0))

\* an entry that adds the count to the one already stored
EnterCountsCommit_Accumulates(p) ==
  /\ req[p].op = "enterCounts" /\ req[p].pc = "write"
  /\ line' = IF req[p].q = NoDec \/ line.physical = NoDec THEN ApplyCounts(line, req[p].q)
             ELSE [line EXCEPT !.physical = RoundNum(DAdd(line.physical, req[p].q))]
  /\ IF audit.status # "IN_PROGRESS"
     THEN /\ Answer(p, "InvalidState")
          /\ UNCHANGED view
     ELSE /\ view' = [op |-> "enterCounts", lines |-> <<AuditMaterialForAuditor(line')>>]
          /\ Answer(p, "ok")
  /\ UNCHANGED <<audit, anomalies, ctrInv, nops, auditOther>>

\* enter_counts: the count is written and committed, then the auditor view of
\* the audit as it is now is returned
EnterCountsCommit(p) ==
  /\ req[p].op = "enterCounts" /\ req[p].pc = "write"
  /\ line' = ApplyCounts(line, req[p].q)
  /\ IF audit.status # "IN_PROGRESS"
     THEN /\ Answer(p, "InvalidState")
          /\ UNCHANGED view
     ELSE /\ view' = [op |-> "enterCounts", lines |-> <<AuditMaterialForAuditor(line')>>]
          /\ Answer(p, "ok")
  /\ UNCHANGED <<audit, anomalies, ctrInv, nops, auditOther>>

\* submit_audit: final counts, the completeness check, the status
SubmitCommit_SkipsCheck(p) ==
  /\ req[p].op = "submit" /\ req[p].pc = "write"
  /\ line' = ApplyCounts(line, req[p].q)
  /\ audit' = [audit EXCEPT !.status = "SUBMITTED"]
  /\ Answer(p, "ok")
  /\ UNCHANGED <<anomalies, view, ctrInv, nops, auditOther>>

SubmitCommit(p) ==
  /\ req[p].op = "submit" /\ req[p].pc = "write"
  /\ IF ApplyCounts(line, req[p].q).physical = NoDec
     THEN /\ Answer(p, "IncompleteAudit")
          /\ UNCHANGED <<audit, line>>
     ELSE /\ line' = ApplyCounts(line, req[p].q)
          /\ audit' = [audit EXCEPT !.status = "SUBMITTED"]
          /\ Answer(p, "ok")
  /\ UNCHANGED <<anomalies, view, ctrInv, nops, auditOther>>

\* analyze_audit, the variance percentage of a line
AuditVariancePct(physical, expected) ==
  IF expected # Dec(0)
  THEN DMul(DMul(DSub(physical, expected), DInv(expected)), Dec(100))
  ELSE IF physical = Dec(0) THEN Dec(0) ELSE Dec(100)

\* a verdict that counts an excess as well as a shortage
AuditIsAnomaly_AnyDirection(variance, pct, threshold) ==
  DLt(threshold, DAbs(pct))

\* analyze_audit, the verdict: only a shortage beyond the threshold
AuditIsAnomaly(variance, pct, threshold) ==
  DLt(variance, Dec(0)) /\ DLt(threshold, DAbs(pct))

\* analyze_audit: expected, threshold, variance and verdict of the line, an
\* Anomaly if the verdict says so, the status
AnalyzeCommit(p) ==
  /\ req[p].op = "analyze" /\ req[p].pc = "write"
  /\ \E i \in LastCheckChoices(audit.date) :
       LET expected == IF req[p].u = "raises" THEN Dec(0)
                       ELSE CalculateExpectedInventoryDetailed(audit.date, i).expected
           threshold == GetThresholdWithSource(Audited).pct
           physical == IF line.physical = NoDec THEN Dec(0) ELSE line.physical
           variance == DSub(physical, expected)
           pct == AuditVariancePct(physical, expected)
           is_anomaly == AuditIsAnomaly(variance, pct, threshold)
       IN  /\ line' = [line EXCEPT !.expected = RoundNum(expected),
                                   !.variance = RoundNum(variance),
                                   !.pct = RoundPct(pct),
                                   !.threshold = RoundPct(threshold),
                                   !.is_anomaly = IF is_anomaly THEN "true" ELSE "false",
                                   !.anomaly_id = IF is_anomaly THEN Len(anomalies) + 1
                                                  ELSE line.anomaly_id]
           /\ anomalies' = IF is_anomaly
                           THEN Append(anomalies,
                                  [expected |-> expected, actual |-> physical,
                                   variance |-> variance, pct |-> pct,
                                   type |-> "audit_shortage", resolved |-> FALSE])
                           ELSE anomalies
  /\ audit' = [audit EXCEPT !.status = "ANALYZED", !.analyzed_at = Today]
  /\ Answer(p, "ok")
  /\ UNCHANGED <<view, ctrInv, nops, auditOther>>

\* the balance a handler without a row lock may have read by the time it
\* writes: the one at its first queries, or the one at its commit
BalanceReads(p) == {req[p].a, ctrInv}

\* accept_counts: the balance is set to the count, the line's anomaly resolved
AcceptCountsCommit(p) ==
  /\ req[p].op = "acceptCounts" /\ req[p].pc = "write"
  /\ ctrLock = 0
  /\ \E seen \in BalanceReads(p) :
       LET physical == IF line.physical = NoDec THEN Dec(0) ELSE line.physical
       IN  IF seen = NoDec \/ seen = physical
           THEN UNCHANGED <<ctrInv, adjustments>>
           ELSE /\ adjustments' = Append(adjustments, [before |-> seen, after |-> physical,
                                             delta |-> DSub(physical, seen)])
                /\ ctrInv' = physical
  /\ anomalies' = IF line.anomaly_id # 0
                  THEN [anomalies EXCEPT ![line.anomaly_id].resolved = TRUE]
                  ELSE anomalies
  /\ Answer(p, "ok")
  /\ UNCHANGED <<audit, line, view, nops, otherAudits, recon, rline, uconv, whInv, issuances,
                 rej, xfer, po, whLock, ctrLock, thrVars, calcVars>>

\* keep_system_values: notes only
KeepSystemValues ==
  /\ audit.status # None
  /\ last' = [op |-> "keepSystemValues",
              res |-> IF audit.status # "ANALYZED" THEN "InvalidState" ELSE "ok"]
  /\ UNCHANGED <<audit, line, anomalies, view, ctrInv, req, nops, auditOther>>

\* close_audit: the status
CloseCommit(p) ==
  /\ req[p].op = "close" /\ req[p].pc = "write"
  /\ audit' = [audit EXCEPT !.status = "CLOSED"]
  /\ Answer(p, "ok")
  /\ UNCHANGED <<line, anomalies, view, ctrInv, nops, auditOther>>

\* a resolution that flips the flag instead of setting it
ResolveAnomaly_Toggles(k) ==
  /\ \A p \in Slots : req[p].pc = "idle"
  /\ nops < MaxWorkflowOps /\ nops' = nops + 1
  /\ IF k \in 1..Len(anomalies)
     THEN /\ anomalies' = [anomalies EXCEPT ![k].resolved = ~anomalies[k].resolved]
          /\ last' = [op |-> "resolveAnomaly", res |-> "ok"]
     ELSE /\ anomalies' = anomalies
          /\ last' = [op |-> "resolveAnomaly", res |-> "NotFound"]
  /\ UNCHANGED <<audit, line, view, ctrInv, req, auditOther>>

\* resolve_anomaly: the flag of anomaly k is set; 404 when there is no such row
ResolveAnomaly(k) ==
  /\ \A p \in Slots : req[p].pc = "idle"
  /\ nops < MaxWorkflowOps /\ nops' = nops + 1
  /\ IF k \in 1..Len(anomalies)
     THEN /\ anomalies' = [anomalies EXCEPT ![k].resolved = TRUE]
          /\ last' = [op |-> "resolveAnomaly", res |-> "ok"]
     ELSE /\ anomalies' = anomalies
          /\ last' = [op |-> "resolveAnomaly", res |-> "NotFound"]
  /\ UNCHANGED <<audit, line, view, ctrInv, req, auditOther>>

\* --------------------------------------------------------- reconciliation
reconOther == <<uconv, whInv, issuances, rej, xfer, po, whLock, ctrLock,
                thrVars, calcVars, audit, line, view, otherAudits>>

\* submit_reconciliation, the variance percentage of a line
ReconVariancePct(reported, system) ==
  IF system # Dec(0)
  THEN DMul(DMul(DSub(reported, system), DInv(system)), Dec(100))
  ELSE IF DLt(Dec(0), reported) THEN Dec(100) ELSE Dec(0)

\* a verdict that counts a variance equal to the threshold
ReconIsAnomaly_NotStrict(pct, threshold) == DLe(threshold, DAbs(pct))

\* submit_reconciliation, the verdict: any variance beyond the threshold
ReconIsAnomaly(pct, threshold) == DLt(threshold, DAbs(pct))

\* submit_reconciliation: the reconciliation is inserted and flushed; an item
\* naming an unknown material raises; otherwise the line and its Anomaly are
\* inserted, compared with the live balance of the contractor, and the
\* session committed; the reconciliation_date of the request is stored and
\* not otherwise used
SubmitReconciliation(reported, date, known) ==
  /\ \A p \in Slots : req[p].pc = "idle"
  /\ recon.status = None
  /\ LET system == IF ctrInv = NoDec THEN Dec(0) ELSE ctrInv
         variance == DSub(Dec(reported), system)
         pct == ReconVariancePct(Dec(reported), system)
         threshold == GetThresholdWithSource(Audited).pct
         is_anomaly == ReconIsAnomaly(pct, threshold)
         stored == [recon |-> recon, rline |-> rline, anomalies |-> anomalies]
         staged ==
           [recon |-> [status |-> "SUBMITTED", date |-> date],
            rline |-> [reported |-> RoundNum(Dec(reported)), system |-> RoundNum(system),
                       variance |-> RoundNum(variance), pct |-> RoundPct(pct),
                       threshold |-> RoundPct(threshold),
                       is_anomaly |-> IF is_anomaly THEN "true" ELSE "false",
                       anomaly_id |-> IF is_anomaly THEN Len(anomalies) + 1 ELSE 0],
            anomalies |-> IF is_anomaly
                          THEN Append(anomalies,
                                 [expected |-> system, actual |-> Dec(reported),
                                  variance |-> variance, pct |-> pct,
                                  type |-> IF DLt(variance, Dec(0))
                                           THEN "reconciliation_shortage"
                                           ELSE "reconciliation_excess",
                                  resolved |-> FALSE])
                          ELSE anomalies]
         after == SessionOutcome(known, stored, staged)
     IN  /\ recon' = after.recon
         /\ rline' = after.rline
         /\ anomalies' = after.anomalies
  /\ last' = [op |-> "submitReconciliation",
              res |-> IF known THEN "ok" ELSE "MaterialNotFound"]
  /\ UNCHANGED <<ctrInv, adjustments, req, nops, reconOther>>

\* review_reconciliation: the status check
ReviewBegin(p, decision, adjust) ==
  /\ StartWorkflowOp(p)
  /\ recon.status # None
  /\ IF recon.status # "SUBMITTED"
     THEN /\ req' = [req EXCEPT ![p] = IdleReq]
          /\ last' = [op |-> "review", res |-> "InvalidState"]
     ELSE /\ req' = [req EXCEPT ![p] = [IdleReq EXCEPT !.op = "review", !.pc = "write",
                                                      !.w = decision, !.u = adjust,
                                                      !.a = ctrInv]]
          /\ UNCHANGED last
  /\ UNCHANGED <<ctrInv, anomalies, recon, rline, adjustments, reconOther>>

\* review_reconciliation: the adjustment, the anomaly, the status
ReviewCommit_AdjustsAlways(p) ==
  /\ req[p].op = "review" /\ req[p].pc = "write"
  /\ \E seen \in BalanceReads(p) :
       IF seen # NoDec /\ seen # rline.reported
       THEN /\ adjustments' = Append(adjustments, [before |-> seen, after |-> rline.reported,
                                             delta |-> DSub(rline.reported, seen)])
            /\ ctrInv' = rline.reported
       ELSE UNCHANGED <<ctrInv, adjustments>>
  /\ anomalies' = IF req[p].w = "ACCEPTED" /\ rline.anomaly_id # 0
                  THEN [anomalies EXCEPT ![rline.anomaly_id].resolved = TRUE]
                  ELSE anomalies
  /\ recon' = [recon EXCEPT !.status = req[p].w]
  /\ Answer(p, "ok")
  /\ UNCHANGED <<rline, nops, reconOther>>

ReviewCommit(p) ==
  /\ req[p].op = "review" /\ req[p].pc = "write"
  /\ \E seen \in BalanceReads(p) :
       IF /\ req[p].w = "ACCEPTED" /\ req[p].u = "adjust"
          /\ seen # NoDec /\ seen # rline.reported
       THEN /\ adjustments' = Append(adjustments, [before |-> seen, after |-> rline.reported,
                                             delta |-> DSub(rline.reported, seen)])
            /\ ctrInv' = rline.reported
       ELSE UNCHANGED <<ctrInv, adjustments>>
  /\ anomalies' = IF req[p].w = "ACCEPTED" /\ rline.anomaly_id # 0
                  THEN [anomalies EXCEPT ![rline.anomaly_id].resolved = TRUE]
                  ELSE anomalies
  /\ recon' = [recon EXCEPT !.status = req[p].w]
  /\ Answer(p, "ok")
  /\ UNCHANGED <<rline, nops, reconOther>>

\* ------------------------------------------------------- specifications
Factors == [bag_kg |-> {Dec(2)}, kg_bag |-> {<<1, 2>>, Dec(1)}]
LineSets == {<<q>> : q \in 1..MaxQty} \cup {<<q, r>> : q \in 1..MaxQty, r \in 1..MaxQty}

NextLedger ==
  \/ \E f \in Factors.bag_kg : CreateUnitConversion("bag", "kg", f)
  \/ \E f \in Factors.kg_bag : CreateUnitConversion("kg", "bag", f)
  \/ \E p \in Slots, w \in Warehouses, q \in 1..MaxQty, u \in Units : IssueBegin(p, w, q, u)
  \/ \E p \in Slots : IssueLockWarehouse(p)
  \/ \E p \in Slots : IssueCommit(p)
  \/ \E s, d \in Warehouses, l \in LineSets : CreateTransfer(s, d, l)
  \/ SubmitTransfer
  \/ \E p \in Slots : CompleteBegin(p)
  \/ \E p \in Slots : CompleteLockSource(p)
  \/ \E p \in Slots : CompleteCommit(p)
  \/ \E p \in Slots : CancelBegin(p)
  \/ \E p \in Slots : CancelCommit(p)
  \/ \E q \in 1..MaxQty, u \in Units : ReportRejection(q, u)
  \/ \E w \in Warehouses : ApproveRejection(w)
  \/ DisputeRejection
  \/ \E p \in Slots : ReceiveBegin(p)
  \/ \E p \in Slots : ReceiveLockContractor(p)
  \/ \E p \in Slots : ReceiveCommit(p)
  \/ \E p \in Slots, q \in 1..MaxQty : GoodsReceiptBegin(p, q)
  \/ \E p \in Slots : GoodsReceiptCommit(p)

Spec == InitLedger /\ [][NextLedger]_vars

\* threshold percentages of requests: invalid ones, valid ones, and a valid
\* one below the scale of the NUMERIC(8,4) column
PctInputs == {Dec(0), Dec(1), Dec(5), Dec(101), <<1, 100000>>}

NextThreshold ==
  \/ \E k \in ThrKeys, pct \in PctInputs : CreateThreshold(k, pct)
  \/ \E k \in ThrKeys, pct \in PctInputs \cup {NoDec}, act \in {None, "true", "false"} :
       UpdateThreshold(k, pct, act)
  \/ \E k \in ThrKeys : DeleteThreshold(k)
  \/ \E c \in Contractors : GetThreshold(c)

\* no stock, no order and no request in flight: the ledger as the other
\* components' specifications start it
QuietLedger(conv, balance) ==
  /\ uconv = conv
  /\ whInv = [w \in Warehouses |-> NoRow]
  /\ ctrInv = balance
  /\ xfer = NoXfer
  /\ po = [status |-> None, w |-> None, unit |-> None, ordered |-> Dec(0),
           received |-> Dec(0), lstatus |-> None]
  /\ whLock = [w \in Warehouses |-> 0]
  /\ ctrLock = 0
  /\ req = [p \in Slots |-> IdleReq]
  /\ last = NoResp
  /\ nops = 0

NoConversions == [pr \in UnitPairs |-> NoDec]
BagIsTwoKg == [pr \in UnitPairs |-> IF pr = <<"bag", "kg">> THEN Dec(2) ELSE NoDec]

InitThreshold ==
  /\ QuietLedger(NoConversions, NoDec)
  /\ issuances = <<>> /\ rej = NoRej
  /\ InitThresholds /\ InitCalculator /\ InitAudits /\ InitReconciliations

SpecThreshold == InitThreshold /\ [][NextThreshold]_vars

\* two warehouses, the source stocked, the destination with or without a row
InitTransfer ==
  /\ uconv \in {NoConversions, BagIsTwoKg}
  /\ whInv \in {[w \in Warehouses |-> IF w = "W1" THEN a ELSE b] :
                  a \in {[qty |-> Dec(InitStock), unit |-> u] : u \in Units},
                  b \in {NoRow} \cup {[qty |-> Dec(q), unit |-> u] : q \in 0..1, u \in Units}}
  /\ ctrInv = NoDec
  /\ xfer = NoXfer
  /\ po = [status |-> None, w |-> None, unit |-> None, ordered |-> Dec(0),
           received |-> Dec(0), lstatus |-> None]
  /\ whLock = [w \in Warehouses |-> 0]
  /\ ctrLock = 0
  /\ req = [p \in Slots |-> IdleReq]
  /\ last = NoResp
  /\ nops = 0
  /\ issuances = <<>> /\ rej = NoRej
  /\ InitThresholds /\ InitCalculator /\ InitAudits /\ InitReconciliations

NextTransfer ==
  \/ \E src, d \in Warehouses, l \in LineSets : CreateTransfer(src, d, l)
  \/ SubmitTransfer
  \/ \E p \in Slots : CompleteBegin(p)
  \/ \E p \in Slots : CompleteLockSource(p)
  \/ \E p \in Slots : CompleteCommit(p)
  \/ \E p \in Slots : CancelBegin(p)
  \/ \E p \in Slots : CancelCommit(p)

SpecTransfer == InitTransfer /\ [][NextTransfer]_vars

\* a stocked warehouse and a contractor holding material that was issued
InitRejection ==
  /\ uconv \in {NoConversions, BagIsTwoKg}
  /\ \E u \in Units : whInv = [w \in Warehouses |->
         IF w = "W1" THEN [qty |-> Dec(InitStock), unit |-> u] ELSE NoRow]
  /\ ctrInv = Dec(InitStock)
  /\ xfer = NoXfer
  /\ po = [status |-> None, w |-> None, unit |-> None, ordered |-> Dec(0),
           received |-> Dec(0), lstatus |-> None]
  /\ whLock = [w \in Warehouses |-> 0]
  /\ ctrLock = 0
  /\ req = [p \in Slots |-> IdleReq]
  /\ last = NoResp
  /\ nops = 0
  /\ issuances = <<[q |-> Dec(InitStock), u |-> BaseUnit, qbase |-> Dec(InitStock), date |-> 1]>>
  /\ rej = NoRej
  /\ InitThresholds /\ InitCalculator /\ InitAudits /\ InitReconciliations

NextRejection ==
  \/ \E p \in Slots, w \in Warehouses, q \in 1..MaxQty, u \in Units : IssueBegin(p, w, q, u)
  \/ \E p \in Slots : IssueLockWarehouse(p)
  \/ \E p \in Slots : IssueCommit(p)
  \/ \E q \in 1..MaxQty, u \in Units : ReportRejection(q, u)
  \/ \E w \in Warehouses : ApproveRejection(w)
  \/ DisputeRejection
  \/ \E p \in Slots : ReceiveBegin(p)
  \/ \E p \in Slots : ReceiveLockContractor(p)
  \/ \E p \in Slots : ReceiveCommit(p)

SpecRejection == InitRejection /\ [][NextRejection]_vars

\* reconciliation reviews next to Issues, from a stocked warehouse and a
\* contractor holding material that was issued (InitRejection)
NextAdjust ==
  \/ \E r \in 0..MaxCount, d \in Dates, known \in BOOLEAN :
       SubmitReconciliation(r, d, known)
  \/ \E p \in Slots, d \in {"ACCEPTED", "DISPUTED"}, a \in {"adjust", "keep"} :
       ReviewBegin(p, d, a)
  \/ \E p \in Slots : ReviewCommit(p)
  \/ \E p \in Slots, w \in Warehouses, q \in 1..MaxQty, u \in Units : IssueBegin(p, w, q, u)
  \/ \E p \in Slots : IssueLockWarehouse(p)
  \/ \E p \in Slots : IssueCommit(p)

SpecAdjust == InitRejection /\ [][NextAdjust]_vars

\* the three stock mutations that convert units: a stocked warehouse, a
\* contractor holding issued material with an approved rejection of part of
\* it, and an approved purchase order
InitConversion ==
  /\ uconv \in {NoConversions, BagIsTwoKg}
  /\ \E u \in Units : whInv = [w \in Warehouses |->
         IF w = "W1" THEN [qty |-> Dec(InitStock), unit |-> u] ELSE NoRow]
  /\ ctrInv = Dec(InitStock)
  /\ xfer = NoXfer
  /\ \E u \in Units :
       po = [status |-> "APPROVED", w |-> "W1", unit |-> u, ordered |-> Dec(Ordered),
             received |-> Dec(0), lstatus |-> "PENDING"]
  /\ whLock = [w \in Warehouses |-> 0]
  /\ ctrLock = 0
  /\ req = [p \in Slots |-> IdleReq]
  /\ last = NoResp
  /\ nops = 0
  /\ issuances = <<[q |-> Dec(InitStock), u |-> BaseUnit, qbase |-> Dec(InitStock), date |-> 1]>>
  /\ \E u \in Units :
       rej = [status |-> "APPROVED", q |-> Dec(1), u |-> u, w |-> "W1", date |-> 0]
  /\ InitThresholds /\ InitCalculator /\ InitAudits /\ InitReconciliations

NextConversion ==
  \/ \E p \in Slots, w \in Warehouses, q \in 1..MaxQty, u \in Units : IssueBegin(p, w, q, u)
  \/ \E p \in Slots : IssueLockWarehouse(p)
  \/ \E p \in Slots : IssueCommit(p)
  \/ \E p \in Slots : ReceiveBegin(p)
  \/ \E p \in Slots : ReceiveLockContractor(p)
  \/ \E p \in Slots : ReceiveCommit(p)
  \/ \E p \in Slots, q \in 1..MaxQty : GoodsReceiptBegin(p, q)
  \/ \E p \in Slots : GoodsReceiptCommit(p)

SpecConversion == InitConversion /\ [][NextConversion]_vars

\* the movement history the calculator is asked about
SeqsUpTo(S, n) == UNION {[1..k -> S] : k \in 0..n}
IssuanceLogs ==
  SeqsUpTo({[q |-> Dec(x), u |-> BaseUnit, qbase |-> Dec(x), date |-> d] :
              x \in 1..MaxQty, d \in Dates}, 2)
ConsumptionLogs == SeqsUpTo({[q |-> Dec(1), date |-> d] : d \in Dates}, 1)
RejectionRows ==
  {NoRej} \cup {[status |-> st, q |-> Dec(1), u |-> u, w |-> "W1", date |-> d] :
                  st \in {"APPROVED", "RECEIVED_AT_WAREHOUSE"}, u \in Units, d \in Dates}
CheckLogs ==
  SeqsUpTo({[status |-> "resolved", date |-> d, actual |-> Dec(1)] : d \in Dates}
           \cup {[status |-> "resolved", date |-> 2, actual |-> NoDec],
                 [status |-> "review", date |-> 2, actual |-> Dec(1)]}, 2)

InitCalc ==
  /\ QuietLedger(BagIsTwoKg, NoDec)
  /\ issuances \in IssuanceLogs
  /\ rej \in RejectionRows
  /\ cons \in ConsumptionLogs
  /\ checks \in CheckLogs
  /\ calc = NoCalc
  /\ InitThresholds /\ InitAudits /\ InitReconciliations

NextCalc == \E asOf \in Dates : CalculateExpected(asOf)

SpecCalc == InitCalc /\ [][NextCalc]_vars

\* an audit of a contractor whose history and thresholds are already recorded
InitAudit ==
  /\ QuietLedger(NoConversions, Dec(2))
  /\ issuances \in SeqsUpTo({[q |-> Dec(2), u |-> BaseUnit, qbase |-> Dec(2), date |-> 1]}, 1)
  /\ cons \in SeqsUpTo({[q |-> Dec(1), date |-> 2]}, 1)
  /\ rej = NoRej
  /\ checks = <<>>
  /\ calc = NoCalc
  /\ thr \in {[k \in ThrKeys |-> IF k = Audited THEN own ELSE IF k = "null" THEN dflt ELSE NoThr] :
                own \in {NoThr, [pct |-> Dec(50), active |-> TRUE]},
                dflt \in {NoThr, [pct |-> Dec(100), active |-> TRUE]}}
  /\ resolved = NoResolved
  /\ audit = [status |-> "IN_PROGRESS", date |-> Today, analyzed_at |-> 0]
  /\ line = NoLine /\ anomalies = <<>> /\ otherAudits = 0
  /\ view = [op |-> "start", lines |-> <<AuditMaterialForAuditor(NoLine)>>]
  /\ InitReconciliations

NextAudit ==
  \/ GetAuditForAuditor
  \/ \E p \in Slots, c \in CountEntries : EnterCountsBegin(p, c)
  \/ \E p \in Slots : EnterCountsCommit(p)
  \/ \E p \in Slots, c \in CountEntries : SubmitBegin(p, c)
  \/ \E p \in Slots : SubmitCommit(p)
  \/ \E p \in Slots, o \in CalcOutcomes : AnalyzeBegin(p, o)
  \/ \E p \in Slots : AnalyzeCommit(p)
  \/ \E p \in Slots : AcceptCountsBegin(p)
  \/ \E p \in Slots : AcceptCountsCommit(p)
  \/ KeepSystemValues
  \/ \E p \in Slots : CloseBegin(p)
  \/ \E p \in Slots : CloseCommit(p)

SpecAudit == InitAudit /\ [][NextAudit]_vars

\* The start of audits: the contractor holds some stock, none, or has no
\* inventory row, and no audit exists.
InitStart ==
  /\ \E balance \in {NoDec, Dec(0), Dec(InitStock)} : QuietLedger(NoConversions, balance)
  /\ issuances = <<>> /\ cons = <<>> /\ rej = NoRej
  /\ checks = <<>> /\ calc = NoCalc
  /\ thr = [k \in ThrKeys |-> NoThr]
  /\ resolved = NoResolved
  /\ InitAudits /\ InitReconciliations

NextStart ==
  \/ \E p \in Slots : StartAuditBegin(p)
  \/ \E p \in Slots : StartAuditCommit(p)
  \/ GetAuditForAuditor
  \/ \E p \in Slots, c \in CountEntries : EnterCountsBegin(p, c)
  \/ \E p \in Slots : EnterCountsCommit(p)
  \/ \E p \in Slots, c \in CountEntries : SubmitBegin(p, c)
  \/ \E p \in Slots : SubmitCommit(p)
  \/ \E r \in {0, MaxCount}, known \in BOOLEAN : SubmitReconciliation(r, Today, known)

SpecStart == InitStart /\ [][NextStart]_vars

\* a reconciliation of a contractor whose balance and thresholds are recorded
InitRecon ==
  /\ \E b \in {NoDec} \cup {Dec(x) : x \in 0..MaxQty} : QuietLedger(NoConversions, b)
  /\ issuances = <<>> /\ rej = NoRej
  /\ thr \in {[k \in ThrKeys |-> IF k = Audited THEN own ELSE IF k = "null" THEN dflt ELSE NoThr] :
                own \in {NoThr, [pct |-> Dec(50), active |-> TRUE]},
                dflt \in {NoThr, [pct |-> Dec(100), active |-> TRUE]}}
  /\ resolved = NoResolved
  /\ InitCalculator /\ InitAudits /\ InitReconciliations

NextRecon ==
  \/ \E r \in 0..MaxCount, d \in Dates, known \in BOOLEAN :
       SubmitReconciliation(r, d, known)
  \/ \E p \in Slots, d \in {"ACCEPTED", "DISPUTED"}, a \in {"adjust", "keep"} :
       ReviewBegin(p, d, a)
  \/ \E p \in Slots : ReviewCommit(p)

SpecRecon == InitRecon /\ [][NextRecon]_vars

\* the life of anomalies: a submitted audit whose count is short or exact,
\* a reconciliation still to come, and every operation that touches an
\* Anomaly
InitAnomaly ==
  /\ QuietLedger(NoConversions, Dec(2))
  /\ issuances = <<[q |-> Dec(2), u |-> BaseUnit, qbase |-> Dec(2), date |-> 1]>>
  /\ rej = NoRej
  /\ thr = [k \in ThrKeys |-> NoThr]
  /\ resolved = NoResolved
  /\ InitCalculator
  /\ audit = [status |-> "SUBMITTED", date |-> Today, analyzed_at |-> 0]
  /\ \E c \in {0, 2} : line = [NoLine EXCEPT !.physical = Dec(c)]
  /\ anomalies = <<>> /\ otherAudits = 0
  /\ view = [op |-> "start", lines |-> <<AuditMaterialForAuditor(NoLine)>>]
  /\ InitReconciliations

NextAnomaly ==
  \/ \E p \in Slots : AnalyzeBegin(p, "returns")
  \/ \E p \in Slots : AnalyzeCommit(p)
  \/ \E p \in Slots : AcceptCountsBegin(p)
  \/ \E p \in Slots : AcceptCountsCommit(p)
  \/ KeepSystemValues
  \/ \E r \in {0, MaxCount}, known \in BOOLEAN : SubmitReconciliation(r, Today, known)
  \/ \E p \in Slots, d \in {"ACCEPTED", "DISPUTED"} : ReviewBegin(p, d, "adjust")
  \/ \E p \in Slots : ReviewCommit(p)
  \/ \E k \in 1..2 : ResolveAnomaly(k)

SpecAnomaly == InitAnomaly /\ [][NextAnomaly]_vars


\* the movements of a contractor's material and the calculation of its
\* expected quantity, from a contractor holding what was issued to it; the
\* requests are served one after the other
NextExpected ==
  \/ \E p \in Slots, w \in Warehouses, q \in 1..MaxQty, u \in Units :
       (\A o \in Slots : req[o].pc = "idle") /\ IssueBegin(p, w, q, u)
  \/ \E p \in Slots : IssueLockWarehouse(p)
  \/ \E p \in Slots : IssueCommit(p)
  \/ \E p \in Slots, q \in 1..MaxQty :
       (\A o \in Slots : req[o].pc = "idle") /\ ReportProductionBegin(p, q)
  \/ \E p \in Slots : ReportProductionCommit(p)
  \/ \E q \in 1..MaxQty, u \in Units : ReportRejection(q, u)
  \/ \E w \in Warehouses : ApproveRejection(w)
  \/ \E p \in Slots : (\A o \in Slots : req[o].pc = "idle") /\ ReceiveBegin(p)
  \/ \E p \in Slots : ReceiveLockContractor(p)
  \/ \E p \in Slots : ReceiveCommit(p)
  \/ (\A o \in Slots : req[o].pc = "idle") /\ CalculateExpected(Today)

SpecExpected == InitRejection /\ [][NextExpected]_vars

\* ------------------------------------------------------------------ claims
\* the slot answers its request in this step
Ends(p) == req[p].pc # "idle" /\ req'[p].pc = "idle"

\* the quantity an Issue in flight asks for, in the unit of the warehouse row
RequestedInStorageUnit(p) ==
  ConvertQuantity(req[p].q, req[p].u, whInv[req[p].w].unit)

\* slot p is an Issue that is about to lock and read an existing warehouse row
IssueDeciding(p) ==
  /\ req[p].op = "issue" /\ req[p].pc = "lockW"
  /\ whInv[req[p].w] # NoRow
  /\ ~IsErr(RequestedInStorageUnit(p))

\* C1: an Issue whose requested quantity, converted to the unit of the warehouse
\* balance, exceeds that balance is answered InsufficientStock, and the
\* warehouse balance, the contractor balance and the Issuance log are the same
\* after the call as before it.
C1_InsufficientIssueFails ==
  [][\A p \in Slots :
       (/\ IssueDeciding(p)
        /\ req'[p].pc # "lockW"
        /\ DLt(whInv[req[p].w].qty, RequestedInStorageUnit(p)))
       => (/\ last' = [op |-> "issue", res |-> "InsufficientStock"]
           /\ whInv' = whInv /\ ctrInv' = ctrInv /\ issuances' = issuances)]_vars

\* C2: of two Issues in flight against one warehouse row, each within the
\* balance and together beyond it, the one that commits first leaves the
\* balance at the initial value minus its own quantity, never below zero, and
\* leaves too little for the other, which therefore fails.
C2_ConcurrentIssuesOneSucceeds ==
  [][\A o \in Slots, p \in Slots :
       (/\ o # p
        /\ req[o].op = "issue" /\ req[o].pc = "lockC" /\ req'[o].pc = "idle"
        /\ IssueDeciding(p) /\ req[p].w = req[o].w
        /\ ~IsErr(RequestedInStorageUnit(o))
        /\ DLe(RequestedInStorageUnit(o), whInv[req[o].w].qty)
        /\ DLe(RequestedInStorageUnit(p), whInv[req[o].w].qty)
        /\ DLt(whInv[req[o].w].qty,
               DAdd(RequestedInStorageUnit(o), RequestedInStorageUnit(p))))
       => (/\ whInv'[req[o].w].qty = DSub(whInv[req[o].w].qty, RequestedInStorageUnit(o))
           /\ DLe(Dec(0), whInv'[req[o].w].qty)
           /\ DLt(whInv'[req[o].w].qty, RequestedInStorageUnit(p)))]_vars

\* C3: every warehouse balance is at least zero in every reachable state.
C3_WarehouseNeverNegative ==
  \A w \in Warehouses : whInv[w] # NoRow => DLe(Dec(0), whInv[w].qty)

\* C4: a successful Issue lowers the warehouse balance and raises the
\* contractor balance by the same quantity in the canonical unit, and appends
\* exactly one Issuance, in one step.
C4_IssueConserves ==
  [][\A p \in Slots :
       (req[p].op = "issue" /\ req[p].pc = "lockC" /\ req'[p].pc = "idle")
       => LET w == req[p].w
              down == ConvertQuantity(DSub(whInv[w].qty, whInv'[w].qty),
                                      whInv[w].unit, BaseUnit)
              up == DSub(ctrInv', IF ctrInv = NoDec THEN Dec(0) ELSE ctrInv)
          IN /\ down = up
             /\ Len(issuances') = Len(issuances) + 1]_vars

\* C9: a threshold lookup answers the percentage of the contractor's own
\* active row if there is one, else that of the active material-default row,
\* else the system constant 2.0; an inactive row is never used.
C9_ThresholdPrecedence ==
  resolved.c # None =>
    LET own == thr[resolved.c]
        dflt == thr["null"]
    IN  \/ last.op # "getThreshold"
        \/ /\ own.active
           /\ resolved.pct = own.pct
        \/ /\ ~own.active /\ dflt.active
           /\ resolved.pct = dflt.pct
        \/ /\ ~own.active /\ ~dflt.active
           /\ resolved.pct = <<2, 1>>

\* a lookup answered from the material default while the contractor's own row
\* exists but has been removed
C9_Witness ==
  /\ last.op = "getThreshold"
  /\ resolved.source = "material"
  /\ thr[resolved.c] # NoThr /\ ~thr[resolved.c].active
  /\ thr["null"].pct # thr[resolved.c].pct

\* the received rejection, dated, in the canonical unit of the material
RejectedInCanonicalUnit ==
  IF rej.status = "RECEIVED_AT_WAREHOUSE"
  THEN <<[date |-> rej.date, amount |-> ConvertQuantity(rej.q, rej.u, BaseUnit)]>>
  ELSE <<>>

\* C10: the expected quantity is opening + issued - consumed - rejected, the
\* three sums taken over the Issuance, Consumption and received-at-warehouse
\* Rejection events dated within [windowStart, asOfDate], each in the
\* canonical unit of the material.
C10_ExpectedIsNetMovement ==
  calc.asOf # 0 =>
    calc.expected =
      DSub(DSub(DAdd(calc.opening,
                     SumInPeriod(IssuanceAmounts, calc.start, calc.asOf)),
                SumInPeriod(ConsumptionAmounts, calc.start, calc.asOf)),
           SumInPeriod(RejectedInCanonicalUnit, calc.start, calc.asOf))

\* the fields of a line that only the analysis may fill in
AnalysisFields ==
  {"expected_quantity", "variance", "variance_percentage", "threshold_used",
   "is_anomaly", "anomaly_id"}

\* C5: while the audit is InProgress or Submitted, nothing sent to the
\* counting party carries an expected quantity, a variance or a verdict, and
\* the stored line has no expected quantity, variance or verdict either,
\* however many counts have been entered.
C5_BlindWhileInProgressOrSubmitted ==
  /\ \A i \in DOMAIN view.lines : DOMAIN view.lines[i] \cap AnalysisFields = {}
  /\ audit.status \in {"IN_PROGRESS", "SUBMITTED"}
       => /\ line.expected = NoDec /\ line.variance = NoDec /\ line.pct = NoDec
          /\ line.threshold = NoDec /\ line.is_anomaly = None /\ line.anomaly_id = 0

\* slot p commits an analysis in this step
Analyzes(p) ==
  req[p].op = "analyze" /\ req[p].pc = "write" /\ req'[p].pc = "idle"

C8_AuditStatusLinear ==
  [][audit'.status # audit.status =>
       <<audit.status, audit'.status>> \in
          {<<None, "IN_PROGRESS">>, <<"IN_PROGRESS", "SUBMITTED">>,
           <<"SUBMITTED", "ANALYZED">>, <<"ANALYZED", "CLOSED">>}]_vars

\* C7: submitting a reconciliation marks the line anomalous, and raises an
\* Anomaly for it, if and only if the variance, as a percentage of the system
\* quantity, is strictly beyond the resolved threshold in absolute value,
\* whether the reported quantity is above or below the system quantity.
C7_ReconAnomalyBothDirections ==
  [][(recon.status = None /\ recon'.status = "SUBMITTED") =>
       LET system == IF ctrInv = NoDec THEN Dec(0) ELSE ctrInv
           reported == rline'.reported
           threshold == GetThresholdWithSource(Audited).pct
           beyond == IF system # Dec(0)
                     THEN DLt(DMul(threshold, DAbs(system)),
                              DMul(Dec(100), DAbs(DSub(reported, system))))
                     ELSE DLt(threshold, DAbs(rline'.pct))
           raised == Len(anomalies') = Len(anomalies) + 1
       IN  /\ (rline'.is_anomaly = "true") <=> beyond
           /\ raised <=> beyond
           /\ ~raised => anomalies' = anomalies
           /\ raised => rline'.anomaly_id = Len(anomalies')]_vars

\* a reconciliation whose reported quantity exceeds the system quantity by
\* more than the threshold and is anomalous
C7_Witness ==
  /\ recon.status = "SUBMITTED"
  /\ DLt(rline.system, rline.reported) /\ rline.system # Dec(0)
  /\ rline.is_anomaly = "true"
  /\ Len(anomalies) = 1 /\ anomalies[1].type = "reconciliation_excess"

\* C11: reporting, approving and disputing a rejection leave every warehouse
\* balance and the contractor balance as they were, whether the call succeeds
\* or is refused.
C11_ReportApproveMoveNothing ==
  [][(\/ rej' # rej /\ rej'.status \in {"REPORTED", "APPROVED", "DISPUTED"}
      \/ last' # last /\ last'.op \in {"report", "approve", "dispute"})
     => (whInv' = whInv /\ ctrInv' = ctrInv)]_vars

\* an approved rejection whose return warehouse still has no balance row
C11_Witness ==
  /\ rej.status = "APPROVED" /\ last = [op |-> "approve", res |-> "ok"]
  /\ whInv[rej.w] = NoRow
  /\ ctrInv # NoDec /\ DLe(ConvertQuantity(rej.q, rej.u, BaseUnit), ctrInv)

\* slot p ends a receive of the rejection in this step
ReceiveEnds(p) ==
  req[p].op = "receive" /\ req[p].pc \in {"lockC", "lockW"} /\ req'[p].pc = "idle"

\* C12: a receive that succeeds lowers the contractor balance by the rejected
\* quantity in the canonical unit, raises the balance of the return warehouse
\* (created if absent) by the rejected quantity in that row's unit and marks
\* the rejection received; a receive that finds the contractor balance below
\* the rejected quantity fails; a receive that fails changes no balance and
\* leaves the status of the rejection alone.
C12_ReceiveMovesRejectedQuantity ==
  [][\A p \in Slots : ReceiveEnds(p) =>
       LET w == rej.w
           before == IF whInv[w] = NoRow THEN Dec(0) ELSE whInv[w].qty
       IN  IF last'.res = "ok"
           THEN /\ ctrInv' = DSub(ctrInv, ConvertQuantity(rej.q, rej.u, BaseUnit))
                /\ DSub(whInv'[w].qty, before) = ConvertQuantity(rej.q, rej.u, whInv'[w].unit)
                /\ rej'.status = "RECEIVED_AT_WAREHOUSE"
           ELSE whInv' = whInv /\ ctrInv' = ctrInv /\ rej' = rej]_vars

\* slot p commits a completion of the transfer successfully in this step
CompleteSucceeds(p) ==
  req[p].op = "complete" /\ req[p].pc = "lockD" /\ req'[p].pc = "idle" /\ last'.res = "ok"

\* C13: a completed Transfer lowers the source balance and raises the
\* destination balance by the same quantity, the gain of the destination row
\* being the loss of the source row converted from the unit of the source row
\* to the unit of the destination row.
C13_TransferConserves ==
  [][\A p \in Slots : CompleteSucceeds(p) =>
       LET src == xfer.src
           dst == xfer.dst
           lost == DSub(whInv[src].qty, whInv'[src].qty)
           gained == DSub(whInv'[dst].qty,
                          IF whInv[dst] = NoRow THEN Dec(0) ELSE whInv[dst].qty)
           converted == ConvertQuantity(lost, whInv[src].unit, whInv'[dst].unit)
       IN  ~IsErr(converted) => gained = converted]_vars

\* the quantity the lines of a transfer ask for in all
RECURSIVE LinesTotal(_)
LinesTotal(lines) ==
  IF lines = <<>> THEN 0 ELSE Head(lines) + LinesTotal(Tail(lines))

\* slot p ends a completion of the transfer in this step
CompleteEnds(p) ==
  req[p].op = "complete" /\ req[p].pc \in {"lockS", "lockD"} /\ req'[p].pc = "idle"

\* C14: a completion whose lines ask for more than the source holds fails with
\* InsufficientStock, and a completion that fails with InsufficientStock
\* leaves every balance and the transfer as they were before the call.
C14_FailedTransferChangesNothing ==
  [][\A p \in Slots : CompleteEnds(p) =>
       LET s == whInv[xfer.src]
           short == s = NoRow \/ DLt(s.qty, Dec(LinesTotal(xfer.lines)))
       IN  /\ short => last' = [op |-> "complete", res |-> "InsufficientStock"]
           /\ last'.res = "InsufficientStock" => (whInv' = whInv /\ xfer' = xfer)]_vars

\* a completion refused at its second line, the first line being in stock
C14_Witness ==
  /\ last = [op |-> "complete", res |-> "InsufficientStock"]
  /\ xfer.status \in {"draft", "submitted"}
  /\ Len(xfer.lines) = 2
  /\ whInv[xfer.src] # NoRow /\ DLe(Dec(xfer.lines[1]), whInv[xfer.src].qty)
  /\ \A w \in Warehouses : whLock[w] = 0

\* the row lock slot p has to acquire before it can take its next step:
\* a warehouse, "contractor", or None
WaitsFor(p) ==
  IF req[p].op = "issue" /\ req[p].pc = "lockW" /\ whInv[req[p].w] # NoRow THEN req[p].w
  ELSE IF req[p].op = "issue" /\ req[p].pc = "lockC" /\ ctrInv # NoDec THEN "contractor"
  ELSE IF req[p].op = "receive" /\ req[p].pc = "lockC" /\ ctrInv # NoDec THEN "contractor"
  ELSE IF req[p].op = "receive" /\ req[p].pc = "lockW" /\ whInv[req[p].w] # NoRow THEN req[p].w
  ELSE IF req[p].op = "complete" /\ req[p].pc = "lockS" /\ whInv[xfer.src] # NoRow THEN xfer.src
  ELSE IF req[p].op = "complete" /\ req[p].pc = "lockD" /\ whInv[xfer.dst] # NoRow THEN xfer.dst
  ELSE None

\* slot p waits for a row lock that slot q holds
BlockedBy(p, q) ==
  \/ WaitsFor(p) = "contractor" /\ ctrLock = q
  \/ WaitsFor(p) \in Warehouses /\ whLock[WaitsFor(p)] = q

\* C19: the operations take their row locks in one global order, so no two
\* requests ever wait for a row lock the other one holds.
C19_NoLockCycle ==
  \A p \in Slots, q \in Slots : p # q => ~(BlockedBy(p, q) /\ BlockedBy(q, p))

\* C15: a contractor never has more than one audit that is InProgress.
C15_OneAuditInProgress == InProgressAudits <= 1

\* C16: a submit that leaves a line without a physical count fails with
\* IncompleteAudit and leaves the audit as it was; every audit that is
\* SUBMITTED, ANALYZED or CLOSED has a physical count on its line.
C16_SubmitNeedsAllCounts ==
  /\ [](audit.status \in {"SUBMITTED", "ANALYZED", "CLOSED"} => line.physical # NoDec)
  /\ [][\A p \in Slots :
          (Ends(p) /\ req[p].op = "submit") /\ ApplyCounts(line, req[p].q).physical = NoDec
            => /\ last' = [op |-> "submit", res |-> "IncompleteAudit"]
               /\ audit' = audit /\ line' = line]_vars

C16_Witness ==
  /\ last = [op |-> "submit", res |-> "IncompleteAudit"]
  /\ audit.status = "IN_PROGRESS" /\ line.physical = NoDec

\* C17: a reconciliation is created SUBMITTED, and once it is ACCEPTED or
\* DISPUTED no step changes its status again.
C17_ReviewedIsTerminal ==
  [][/\ recon.status = None => recon'.status \in {None, "SUBMITTED"}
     /\ recon.status \in {"ACCEPTED", "DISPUTED"} => recon'.status = recon.status]_vars

\* C18: a review that is not ACCEPTED with adjust_inventory set leaves the
\* contractor balance as it was and creates no inventory adjustment.
C18_ReviewAdjustsOnlyWhenAsked ==
  [][\A p \in Slots :
       (Ends(p) /\ req[p].op = "review") /\ ~(req[p].w = "ACCEPTED" /\ req[p].u = "adjust")
         => ctrInv' = ctrInv /\ adjustments' = adjustments]_vars

C18_Witness ==
  /\ last = [op |-> "review", res |-> "ok"]
  /\ recon.status = "DISPUTED"
  /\ ctrInv # NoDec /\ ctrInv # rline.reported
  /\ adjustments = <<>>

\* C20: when the expected-inventory calculation raises during analyze, the
\* request fails with CalculationError and the line gets no expected
\* quantity, variance or verdict, and no anomaly is created.
C20_CalculationErrorPropagated ==
  [][\A p \in Slots :
       Analyzes(p) /\ req[p].u = "raises"
         => /\ last' = [op |-> "analyze", res |-> "CalculationError"]
            /\ line' = line /\ anomalies' = anomalies /\ audit' = audit]_vars

\* a conversion between the two units is defined in one direction or the other
Convertible(from, to) ==
  from = to \/ uconv[<<from, to>>] # NoDec \/ uconv[<<to, from>>] # NoDec

\* the unit pairs the stock mutation served by slot p has to convert between
NeededConversions(p) ==
  LET row == whInv[req[p].w] IN
  IF req[p].op = "issue"
  THEN {<<req[p].u, BaseUnit>>} \cup (IF row = NoRow THEN {} ELSE {<<row.unit, BaseUnit>>})
  ELSE IF req[p].op = "receive"
  THEN {<<rej.u, BaseUnit>>} \cup (IF row = NoRow THEN {} ELSE {<<BaseUnit, row.unit>>})
  ELSE IF req[p].op = "grn"
  THEN (IF row = NoRow THEN {} ELSE {<<po.unit, row.unit>>})
  ELSE {}

\* C21: an Issue, Receive-against-order or Reject-and-receive that has to
\* convert between two units with no conversion defined in either direction
\* does not succeed, and a request answered NoConversionDefined changes no
\* balance, Issuance, rejection or order.
C21_NoConversionAborts ==
  [][/\ last'.res = "NoConversionDefined"
          => /\ whInv' = whInv /\ ctrInv' = ctrInv /\ issuances' = issuances
             /\ rej' = rej /\ po' = po
     /\ \A p \in Slots :
          (Ends(p) /\ \E pr \in NeededConversions(p) : ~Convertible(pr[1], pr[2]))
            => /\ last'.res # "ok"
               /\ whInv' = whInv /\ ctrInv' = ctrInv /\ issuances' = issuances
               /\ rej' = rej /\ po' = po]_vars

\* a Reject-and-receive whose quantity is in the base unit, refused at the
\* warehouse row after the contractor row was locked and the deduction staged
C21_Witness ==
  /\ last = [op |-> "receive", res |-> "NoConversionDefined"]
  /\ rej.status = "APPROVED" /\ rej.u = BaseUnit
  /\ whInv[rej.w] # NoRow /\ whInv[rej.w].unit # BaseUnit
  /\ ctrInv = Dec(InitStock)

\* C22: after a Receive-against-order the order line is RECEIVED if and only
\* if its received quantity is at least its ordered quantity and
\* PARTIALLY_RECEIVED otherwise, the order is RECEIVED if and only if its
\* line is; and an order that is RECEIVED stays RECEIVED.
C22_OrderStatusFollowsReceipts ==
  [][/\ \A p \in Slots :
          (Ends(p) /\ req[p].op = "grn" /\ last'.res = "ok")
            => /\ po'.lstatus = IF DLe(po'.ordered, po'.received) THEN "RECEIVED"
                                ELSE "PARTIALLY_RECEIVED"
               /\ po'.status = po'.lstatus
     /\ po.status = "RECEIVED" => po'.status = "RECEIVED"]_vars

\* C26: a committed Receive-against-order raises the warehouse balance by the
\* received quantity, in the unit of the row, over the balance the row held
\* immediately before the commit, so that no concurrent receipt or Issue is
\* lost.
C26_ReceiptLosesNoUpdate ==
  [][\A p \in Slots :
       (Ends(p) /\ req[p].op = "grn" /\ last'.res = "ok")
         => LET w == req[p].w
                before == IF whInv[w] = NoRow THEN Dec(0) ELSE whInv[w].qty
            IN  DSub(whInv'[w].qty, before)
                  = RoundNum(ConvertQuantity(req[p].q, po.unit, whInv'[w].unit))]_vars

\* C23: whatever thresholds were created, updated, reactivated and deleted, a
\* threshold lookup answers a percentage above 0 and at most 100.
C23_ResolvedPercentagePositive ==
  resolved.c # None => (DLt(Dec(0), resolved.pct) /\ DLe(resolved.pct, Dec(100)))

\* C24: an enterCounts whose payload was already applied leaves the line and
\* the audit exactly as they were; in general the line an enterCounts leaves
\* is the one a second call with the same payload would leave, and only the
\* physical count of the line differs from before.
C24_EnterCountsIdempotent ==
  [][\A p \in Slots :
       (Ends(p) /\ req[p].op = "enterCounts")
         => /\ audit' = audit
            /\ ApplyCounts(line', req[p].q) = line'
            /\ [line' EXCEPT !.physical = line.physical] = line
            /\ (req[p].q # NoDec /\ line.physical = RoundNum(req[p].q)) => line' = line]_vars

\* a second enterCounts with the payload of the first, about to be written
C24_Witness ==
  /\ last = [op |-> "enterCounts", res |-> "ok"]
  /\ audit.status = "IN_PROGRESS"
  /\ \E p \in Slots : /\ req[p].op = "enterCounts" /\ req[p].pc = "write"
                      /\ req[p].q = line.physical /\ line.physical # Dec(0)

\* C25: for every pair of units with a conversion defined in either
\* direction, the factor resolved one way is the inverse of the factor
\* resolved the other way, and converting a quantity there and back gives
\* the quantity.
C25_ConversionRoundTrip ==
  \A pr \in UnitPairs :
    Convertible(pr[1], pr[2]) =>
      /\ GetConversionFactor(pr[2], pr[1]) = DInv(GetConversionFactor(pr[1], pr[2]))
      /\ \A q \in 0..MaxQty :
           ConvertQuantity(ConvertQuantity(Dec(q), pr[1], pr[2]), pr[2], pr[1]) = Dec(q)

\* C27: the 'before' value of every inventory adjustment is the balance the
\* contractor row held immediately before the adjustment was written.
C27_AdjustmentSeesActualBalance ==
  [][Len(adjustments') > Len(adjustments)
       => adjustments'[Len(adjustments')].before = ctrInv]_vars

\* the status each operation on an audit requires
RequiredStatus ==
  [enterCounts |-> "IN_PROGRESS", submit |-> "IN_PROGRESS", analyze |-> "SUBMITTED",
   acceptCounts |-> "ANALYZED", close |-> "ANALYZED"]

\* C28: of two calls of the same transition on one audit at most one performs
\* it: a submit, analyze or close that finds the audit no longer in the
\* status it requires is answered InvalidState and leaves the audit as it is.
C28_OneCallerTransitions ==
  [][\A p \in Slots :
       (/\ Ends(p) /\ req[p].op \in {"submit", "analyze", "close"}
        /\ audit.status # RequiredStatus[req[p].op])
         => (last'.res = "InvalidState" /\ audit' = audit)]_vars

\* C29: a call on an audit proceeds only if the audit is in the status the
\* operation requires when the call is made; otherwise it is rejected with
\* InvalidState and changes no audit, line, anomaly, balance or adjustment.
C29_StatusGuards ==
  [][\A p \in Slots :
       /\ (/\ req[p].pc = "idle" /\ req'[p].pc # "idle"
           /\ req'[p].op \in DOMAIN RequiredStatus)
            => audit.status = RequiredStatus[req'[p].op]
       /\ (/\ nops' # nops /\ req' = req
           /\ last'.op \in DOMAIN RequiredStatus)
            => /\ last'.res = "InvalidState"
               /\ audit.status # RequiredStatus[last'.op]
               /\ audit' = audit /\ line' = line /\ anomalies' = anomalies
               /\ ctrInv' = ctrInv /\ adjustments' = adjustments]_vars

\* an analysis asked of an audit that is still IN_PROGRESS
C29_Witness ==
  /\ last = [op |-> "analyze", res |-> "InvalidState"]
  /\ audit.status = "IN_PROGRESS"
  /\ line.expected = NoDec /\ anomalies = <<>>

\* the resolved lines dated strictly before asOf that record an actual quantity
CountedLines(asOf) ==
  {i \in 1..Len(checks) : /\ checks[i].status = "resolved"
                           /\ checks[i].date < asOf
                           /\ checks[i].actual # NoDec}

\* C30: the opening balance of an expected-inventory calculation is the
\* recorded actual quantity of a most recent resolved line dated strictly
\* before asOfDate, the window starting the day after it; it is 0 from the
\* epoch floor only when no such line exists.
C30_OpeningFromLastResolvedLine ==
  calc # NoCalc =>
    IF CountedLines(calc.asOf) = {}
    THEN calc.opening = Dec(0) /\ calc.start = EpochFloor
    ELSE \E i \in CountedLines(calc.asOf) :
           /\ \A j \in CountedLines(calc.asOf) : checks[j].date <= checks[i].date
           /\ calc.opening = checks[i].actual
           /\ calc.start = checks[i].date + 1

\* C31: the expected (system) quantity recorded on a reconciliation line at
\* submit is the calculator's expected quantity as of the reconciliation
\* date, the value analyze_audit would record for that date.
C31_ReconExpectedIsCalculated ==
  [][(recon.status = None /\ recon'.status = "SUBMITTED") =>
       \E i \in LastCheckChoices(recon'.date) :
         rline'.system =
           RoundNum(CalculateExpectedInventoryDetailed(recon'.date, i).expected)]_vars

\* request p commits an acceptance: accept_counts, or a review with status
\* ACCEPTED and adjust_inventory
Accepts(p) ==
  /\ req[p].pc = "write" /\ req'[p].pc = "idle"
  /\ \/ req[p].op = "acceptCounts"
     \/ req[p].op = "review" /\ req[p].w = "ACCEPTED" /\ req[p].u = "adjust"

\* C32: an acceptance of a line whose count differs from the live balance
\* (0 when the contractor has no inventory row) appends exactly one
\* adjustment (before = the balance, after = the count, delta = after -
\* before) and sets the balance to the count; an acceptance of a line whose
\* count equals the balance, and a review that does not accept, append
\* nothing and leave the balance as it is.
C32_AcceptanceRecordsAdjustment ==
  [][\A p \in Slots :
       LET balance == IF ctrInv = NoDec THEN Dec(0) ELSE ctrInv
           count == IF req[p].op = "review" THEN rline.reported
                    ELSE IF line.physical = NoDec THEN Dec(0) ELSE line.physical
       IN  /\ Accepts(p) =>
                IF count # balance
                THEN /\ adjustments' = Append(adjustments,
                                         [before |-> balance, after |-> count,
                                          delta |-> DSub(count, balance)])
                     /\ ctrInv' = count
                ELSE adjustments' = adjustments /\ ctrInv' = ctrInv
           /\ (Ends(p) /\ req[p].op \in {"review", "acceptCounts"} /\ ~Accepts(p))
                => (adjustments' = adjustments /\ ctrInv' = ctrInv)]_vars

\* C33: whatever analyze calls ran, an anomalous line is linked to an Anomaly
\* and the audit has raised exactly one; a line that is not anomalous is
\* linked to none and the audit has raised none.
C33_OneAnomalyPerAnomalousLine ==
  LET raised == {k \in 1..Len(anomalies) : anomalies[k].type = "audit_shortage"}
  IN  /\ line.is_anomaly = "true" =>
           (line.anomaly_id \in raised /\ Cardinality(raised) = 1)
      /\ line.is_anomaly \in {"false", None} =>
           (line.anomaly_id = 0 /\ raised = {})

\* C34: once the audit is Submitted, Analyzed or Closed, no step changes the
\* physical count of its line.
C34_SubmittedCountsFrozen ==
  [][audit.status \in {"SUBMITTED", "ANALYZED", "CLOSED"}
       => line'.physical = line.physical]_vars

\* C35: no step removes an Anomaly or changes the expected, actual or
\* variance snapshot of one, and a resolved Anomaly stays resolved, whether
\* the step is an analysis, an acceptance, a review, keep_system_values or a
\* direct resolution.
C35_AnomaliesOnlyResolve ==
  [][/\ Len(anomalies') >= Len(anomalies)
     /\ \A k \in 1..Len(anomalies) :
          /\ anomalies'[k].expected = anomalies[k].expected
          /\ anomalies'[k].actual = anomalies[k].actual
          /\ anomalies'[k].variance = anomalies[k].variance
          /\ anomalies'[k].pct = anomalies[k].pct
          /\ anomalies'[k].type = anomalies[k].type
          /\ anomalies[k].resolved => anomalies'[k].resolved]_vars

\* an audit anomaly and a reconciliation anomaly, both resolved, the first
\* by accept_counts and then resolved again directly
C35_Witness ==
  /\ Len(anomalies) = 2
  /\ \A k \in 1..2 : anomalies[k].resolved
  /\ last = [op |-> "resolveAnomaly", res |-> "ok"]
  /\ recon.status = "DISPUTED"
  /\ adjustments # <<>>

C37_ExpectedIsLiveBalance ==
  (/\ last = [op |-> "expected", res |-> "ok"] /\ calc.asOf = Today
   /\ \A p \in Slots : req[p].pc = "idle"
   /\ adjustments = <<>>)
    => calc.expected = (IF ctrInv = NoDec THEN Dec(0) ELSE ctrInv)

\* C38: the received quantity of the order line never exceeds the ordered
\* quantity; a receipt for more than the line has remaining when it is
\* answered is not accepted, and a receipt that is refused changes neither
\* the order, its line nor any warehouse balance.
C38_ReceiptsWithinOrder ==
  [][/\ DLe(po'.received, po'.ordered)
     /\ \A p \in Slots :
          (Ends(p) /\ req[p].op = "grn"
           /\ DLt(DSub(po.ordered, po.received), req[p].q))
            => last'.res # "ok"
     /\ (nops' # nops /\ last'.op = "grn" /\ req' = req)
            => (po' = po /\ whInv' = whInv)
     /\ \A p \in Slots :
          (Ends(p) /\ req[p].op = "grn" /\ last'.res # "ok")
            => (po' = po /\ whInv' = whInv)]_vars

\* C39: the stock of a rejection is moved at most once: a receive moves
\* stock only for a rejection that is still APPROVED when the receive is
\* answered, and a rejection already received changes no balance again.
C39_RejectionReceivedOnce ==
  [][/\ \A p \in Slots :
          (ReceiveEnds(p) /\ last'.res = "ok") => rej.status = "APPROVED"
     /\ rej.status = "RECEIVED_AT_WAREHOUSE" =>
          \A p \in Slots : ReceiveEnds(p) => (ctrInv' = ctrInv /\ whInv' = whInv)]_vars

\* C40: a completed or cancelled transfer keeps its status, and a completion
\* moves stock only for a transfer that is neither completed nor cancelled
\* when the completion is answered.
C40_TransferMovesOnce ==
  [][/\ xfer.status \in {"completed", "cancelled"} => xfer'.status = xfer.status
     /\ \A p \in Slots :
          CompleteSucceeds(p) => xfer.status \in {"draft", "submitted"}]_vars

====
